---------------------------- MODULE Spec2Model ----------------------------
(***************************************************************************)
(* A model of the obsidian-sync client: the synchronous match-and-buffer   *)
(* message router (api/filter.go), the protocol exchanges built on it      *)
(* (PullFile, PushFile, WaitForPushMessage), the asynchronous variant of   *)
(* the same exchanges, and the reconciliation engine (SyncFiles, DoSync,   *)
(* UpdateWithPush).                                                        *)
(***************************************************************************)
EXTENDS Integers, Sequences, FiniteSets, TLC

(***************************************************************************)
(* Bounds of the model.                                                    *)
(***************************************************************************)
\* frames the transport delivers in one run of the router specification
MaxFrames == 3

\* the largest timestamp (ctime, mtime, clock reading) of the model
MaxTime == 2

\* the largest version id the server assigns
MaxUid == 2

\* WaitForPushMessage calls in one run of the send specification
MaxWaits == 2

\* writes to the transport, begun or done, in one run of the send
\* specification
MaxSends == 4

\* frames the transport delivers in one run of the handshake specification
MaxInitFrames == 4

\* frames the transport delivers to the asynchronous variant in a run
MaxMessages == 5

\* steps of the clock in one run of the timed pings
MaxTicks == 4

\* Encrypt calls on one payload
MaxEncrypts == 2

(***************************************************************************)
(* Frames.  A frame is what ws.ReadMessage returns.  Its kind names the    *)
(* shape of its content; json, keys, op and res are what json.Unmarshal    *)
(* into map[string]interface{} makes of that content.  A header_bad frame  *)
(* is a JSON object with the keys of a pull header and a value of a type   *)
(* PullHeaderMessage does not take, and an op_push_bad frame a push with a *)
(* value of a type IncomingPushMessage does not take, an op_ready_bad frame *)
(* a ready frame whose version is no number, an op_num frame a JSON object *)
(* whose op is a number.                                                   *)
(***************************************************************************)
JsonKinds == {"res_ok", "res_next", "op_push", "op_push_other", "op_push_bad",
              "op_ready", "op_ready_bad", "op_pong", "op_ok", "op_num",
              "header", "header_bad", "size"}

\* the frames whose op is push: one for the path an exchange is about,
\* one for another path, and one that does not unmarshal
PushFrameKinds == {"op_push", "op_push_other", "op_push_bad"}

AllKinds == JsonKinds \cup {"bin"}

\* json.Unmarshal(msg, &msgMap) succeeds
IsJson(f) == f.kind \in JsonKinds

\* the keys of the decoded JSON object
KeysOf(f) ==
    CASE f.kind \in {"res_ok", "res_next"} -> {"res"}
      [] f.kind \in PushFrameKinds -> {"op", "path", "hash", "size", "ctime", "mtime",
                     "folder", "deleted", "device", "uid"}
      [] f.kind \in {"op_ready", "op_ready_bad"} -> {"op", "version"}
      [] f.kind \in {"op_pong", "op_ok", "op_num"} -> {"op"}
      [] f.kind \in {"header", "header_bad"} -> {"hash", "size", "pieces"}
      [] f.kind = "size" -> {"size", "limit"}
      [] OTHER -> {}

\* msgMap[key] for the two keys the matchers compare by value ("" is nil)
FieldOf(f, key) ==
    CASE key = "op" /\ f.kind \in PushFrameKinds -> "push"
      [] key = "op" /\ f.kind \in {"op_ready", "op_ready_bad"} -> "ready"
      [] key = "op" /\ f.kind = "op_pong" -> "pong"
      [] key = "op" /\ f.kind = "op_ok" -> "ok"
      [] key = "res" /\ f.kind = "res_ok" -> "ok"
      [] key = "res" /\ f.kind = "res_next" -> "next"
      [] OTHER -> ""

(***************************************************************************)
(* Matchers: the predicates handed to nextMessageMatching.                 *)
(***************************************************************************)
\* nextMessageWithJsonValue(key, value)
JsonValueMatcher(key, value) ==
    [type |-> "value", key |-> key, value |-> value, set |-> {}]

\* nextMessageWithJsonKeys(keys...)
JsonKeysMatcher(keys) ==
    [type |-> "keys", key |-> "", value |-> "", set |-> keys]

\* nextBinaryMessage()
BinaryMatcher ==
    [type |-> "binary", key |-> "", value |-> "", set |-> {}]

\* nextMessageMatchingJson(func(json) { json["op"] == a || json["op"] == b })
JsonOpMatcher(ops) ==
    [type |-> "opin", key |-> "op", value |-> "", set |-> ops]

\* an arbitrary predicate on the frame's content
AnyMatcher(kinds) ==
    [type |-> "any", key |-> "", value |-> "", set |-> kinds]

\* matcher(msg)
Matches(m, f) ==
    CASE m.type = "value" -> IsJson(f) /\ FieldOf(f, m.key) = m.value
      [] m.type = "keys" -> IsJson(f) /\ m.set \subseteq KeysOf(f)
      [] m.type = "binary" -> ~IsJson(f)
      [] m.type = "opin" -> IsJson(f) /\ FieldOf(f, "op") \in m.set
      [] OTHER -> f.kind \in m.set

NoMatcher == AnyMatcher({})

\* a frame without payload; a pull header carries size and pieces, a
\* binary frame its bytes, and a ready frame the server's version
Frame(id, kind) ==
    [id |-> id, kind |-> kind, size |-> 0, pieces |-> 0, bytes |-> <<>>,
     version |-> 0]

NoFrame == Frame(0, "none")

VARIABLES
    filteredQueue,  \* ctx.filteredQueue: frames read and not yet claimed
    nread,          \* frames read from the transport so far
    nmm,            \* the nextMessageMatching call in progress
    got,            \* what the last nextMessageMatching call returned
    readLog,        \* history: every frame read from the transport, in order
    returned        \* history: every frame returned, with the call's matcher

VARIABLES
    LocalFiles,     \* State.LocalFiles: path -> ObsidianLocalEntry
    RemoteEntries,  \* State.RemoteEntries: path -> ObsidianRemoteEntry
    LastSync,       \* State.LastSync
    pass,           \* where Sync/StartDaemon/SyncFiles stands, with the
                    \* five path lists of the pass in progress
    execLog,        \* history: the actions the current pass has executed
    passStart,      \* history: both maps as the current pass found them
    lastPush        \* history: the last push applied to each path

VARIABLES
    pull,           \* the PullFile call in progress
    sent            \* history: the frames written to the transport

routerVars == <<filteredQueue, nread, nmm, got, readLog, returned>>

VARIABLES
    pushing,            \* the PushFile call in progress
    unhandledMessages,  \* ctx.unhandledMessages: the channel of frames read
    variant             \* which api the program is built from

pullVars == <<pull, sent>>

pushVars == <<pushing, unhandledMessages, variant>>

VARIABLES
    writing,              \* the writes to the transport in progress
    gpc,                  \* where each long-lived goroutine stands
    waits,                \* WaitForPushMessage calls made so far
    reader,               \* the reader goroutine of each call
    pinger,               \* the pinger goroutine of each call
    unansweredPingCount   \* the counter the two goroutines of a call share

sendVars == <<writing, gpc, waits, reader, pinger, unansweredPingCount>>

VARIABLES
    handshake             \* the SendInit call, and what it has collected

initVars == <<handshake>>

VARIABLES
    syncState,            \* Sync's syncState: the two maps of the
                          \* asynchronous State
    doSync                \* the DoSync call in progress, with its lists

asyncVars == <<syncState, doSync>>

VARIABLES
    dispatch              \* handleMessages: the registered handlers, and
                          \* history: where each frame it took was routed

dispatchVars == <<dispatch>>

VARIABLES
    clock                 \* the time, the deadline of each pinger's timer,
                          \* and history: when each ping was sent and how
                          \* many pongs were read

timeVars == <<clock>>

VARIABLES
    crypto                \* a payload, a password and a salt, and
                          \* history: what the Encrypt and Decrypt calls
                          \* on them returned

cryptoVars == <<crypto>>

VARIABLES
    asyncLog              \* history of the asynchronous variant: the paths
                          \* onPush has written since ready that no DoSync
                          \* has read yet, the kinds of the frames
                          \* handleMessages took that were no push and no
                          \* ready, and the paths whose last push that
                          \* onPush applied carried deleted = true

historyVars == <<asyncLog>>

sideVars == <<timeVars, cryptoVars, historyVars>>

otherVars == <<sendVars, initVars, asyncVars, dispatchVars, sideVars>>

xferVars == <<pullVars, pushVars, otherVars>>

\* what the senders leave alone, but for the count of frames read
quietVars == <<filteredQueue, nmm, got, readLog, returned, LocalFiles,
               RemoteEntries, LastSync, pass, execLog, passStart, lastPush,
               pull, pushing, unhandledMessages, variant, initVars,
               asyncVars, dispatchVars, sideVars>>

syncVars == <<LocalFiles, RemoteEntries, LastSync, pass, execLog, passStart,
              lastPush>>

vars == <<routerVars, syncVars, xferVars>>

(***************************************************************************)
(* api/filter.go: nextMessageMatching                                      *)
(***************************************************************************)
LastMatch(q, m) ==
    IF \E i \in 1..Len(q) : Matches(m, q[i])
    THEN CHOOSE i \in 1..Len(q) :
            Matches(m, q[i]) /\ \A j \in (i + 1)..Len(q) : ~Matches(m, q[j])
    ELSE 0

\* index of the first frame of q the matcher accepts, 0 when there is none
FirstMatch(q, m) ==
    IF \E i \in 1..Len(q) : Matches(m, q[i])
    THEN CHOOSE i \in 1..Len(q) :
            Matches(m, q[i]) /\ \A j \in 1..(i - 1) : ~Matches(m, q[j])
    ELSE 0

RemoveAtBug(q, i) == SubSeq(q, 1, i - 1)

\* the three-way removal of element i from the queue
RemoveAt(q, i) ==
    IF i = 1 THEN SubSeq(q, 2, Len(q))
    ELSE IF i = Len(q) THEN SubSeq(q, 1, i - 1)
    ELSE SubSeq(q, 1, i - 1) \o SubSeq(q, i + 1, Len(q))

Idle == [active |-> FALSE, phase |-> "idle", matcher |-> NoMatcher]

NoResult == [done |-> FALSE, err |-> FALSE, frame |-> NoFrame]

\* a caller enters nextMessageMatching(m)
EnterAwait(m) ==
    /\ ~nmm.active
    /\ nmm' = [active |-> TRUE, phase |-> "scan", matcher |-> m]
    /\ got' = NoResult

\* lines 14-28: the scan of the filtered queue
NextMessageMatchingScan ==
    /\ nmm.active /\ nmm.phase = "scan"
    /\ LET i == FirstMatch(filteredQueue, nmm.matcher) IN
         IF i # 0
         THEN /\ filteredQueue' = RemoveAt(filteredQueue, i)
              /\ got' = [done |-> TRUE, err |-> FALSE, frame |-> filteredQueue[i]]
              /\ returned' = Append(returned,
                    [frame |-> filteredQueue[i], matcher |-> nmm.matcher,
                     buffered |-> TRUE])
              /\ nmm' = Idle
         ELSE /\ nmm' = [nmm EXCEPT !.phase = "read"]
              /\ UNCHANGED <<filteredQueue, got, returned>>
    /\ UNCHANGED <<nread, readLog>>

\* lines 30-43: one iteration of the read loop, the transport delivering f
NextMessageMatchingRead(f) ==
    /\ nmm.active /\ nmm.phase = "read"
    /\ f.id = nread + 1
    /\ nread' = nread + 1
    /\ readLog' = Append(readLog, f)
    /\ IF Matches(nmm.matcher, f)
       THEN /\ got' = [done |-> TRUE, err |-> FALSE, frame |-> f]
            /\ returned' = Append(returned,
                  [frame |-> f, matcher |-> nmm.matcher, buffered |-> FALSE])
            /\ nmm' = Idle
            /\ UNCHANGED filteredQueue
       ELSE /\ filteredQueue' = Append(filteredQueue, f)
            /\ UNCHANGED <<got, returned, nmm>>

\* lines 31-34: ctx.nextMessage() fails
NextMessageMatchingReadErr ==
    /\ nmm.active /\ nmm.phase = "read"
    /\ got' = [done |-> TRUE, err |-> TRUE, frame |-> NoFrame]
    /\ nmm' = Idle
    /\ UNCHANGED <<filteredQueue, nread, readLog, returned>>

(***************************************************************************)
(* crypto: Encrypt, Decrypt, DecryptString.  A byte string is a sequence   *)
(* of bytes; a nonce byte names its nonce, and the sealed box that follows *)
(* the nonce (ciphertext and tag) is one unit naming the key, the nonce    *)
(* and the plaintext it opens to.                                          *)
(***************************************************************************)
NonceSize == 12

VaultKey == "key"

NonceByte(nonce) == [sealed |-> FALSE, key |-> "", n |-> nonce, p |-> ""]

SealedBox(input, key, nonce) == [sealed |-> TRUE, key |-> key, n |-> nonce, p |-> input]

JunkByte == [sealed |-> FALSE, key |-> "", n |-> "junk", p |-> ""]

\* deriveKey: scrypt.Key of the password and the salt; the vault's key is
\* the one of its password and salt
DeriveKey(password, salt) ==
    CASE password = "pw1" /\ salt = "s1" -> VaultKey
      [] password = "pw1" /\ salt = "s2" -> "key12"
      [] password = "pw2" /\ salt = "s1" -> "key21"
      [] OTHER -> "key22"

\* Encrypt returning the output of Seal alone
EncryptWithoutNonce(input, key, nonce) == <<SealedBox(input, key, nonce)>>

\* crypto.Encrypt with the nonce rand.Reader gave
Encrypt(input, key, nonce) ==
    [i \in 1..NonceSize |-> NonceByte(nonce)] \o <<SealedBox(input, key, nonce)>>

\* aesgcm.Open(nil, nonce, ciphertext, nil) succeeds
Opens(nonce, ciphertext, key) ==
    /\ Len(ciphertext) = 1
    /\ ciphertext[1].sealed
    /\ ciphertext[1].key = key
    /\ \A i \in 1..Len(nonce) : nonce[i] = NonceByte(ciphertext[1].n)

\* crypto.Decrypt: the plaintext, an error, or the panic of slicing an
\* input shorter than the nonce
Decrypt(encrypted, key) ==
    IF Len(encrypted) = 0 THEN [res |-> "ok", val |-> ""]
    ELSE IF Len(encrypted) < NonceSize THEN [res |-> "panic", val |-> ""]
    ELSE LET nonce == SubSeq(encrypted, 1, NonceSize)
             ciphertext == SubSeq(encrypted, NonceSize + 1, Len(encrypted))
         IN  IF Opens(nonce, ciphertext, key)
             THEN [res |-> "ok", val |-> ciphertext[1].p]
             ELSE [res |-> "err", val |-> ""]

\* sha256.Sum256 of a file content
Sha256(content) ==
    CASE content = "c1" -> "sha_c1"
      [] content = "c2" -> "sha_c2"
      [] OTHER -> "sha_empty"

\* hex.DecodeString of a decrypted hash: the digest the hex string spells
HexDecodeDigest(s) ==
    CASE s = "hexsha_c1" -> [err |-> FALSE, val |-> "sha_c1"]
      [] s = "hexsha_c2" -> [err |-> FALSE, val |-> "sha_c2"]
      [] s = "hexsha_empty" -> [err |-> FALSE, val |-> "sha_empty"]
      [] OTHER -> [err |-> TRUE, val |-> ""]

\* hex.DecodeString of a path or hash field of a push: e1, e2 and h0, h1, h2
\* spell ciphertexts of the vault's key, hraw1 the ciphertext of a digest
\* that was not hex-encoded, ebad and hbad bytes the key does not open
HexDecodeField(s) ==
    CASE s = "e1" -> [err |-> FALSE, val |-> Encrypt("a.md", VaultKey, "n1")]
      [] s = "e2" -> [err |-> FALSE, val |-> Encrypt("b.md", VaultKey, "n2")]
      [] s = "h0" -> [err |-> FALSE, val |-> Encrypt("hexsha_empty", VaultKey, "n1")]
      [] s = "h1" -> [err |-> FALSE, val |-> Encrypt("hexsha_c1", VaultKey, "n1")]
      [] s = "h2" -> [err |-> FALSE, val |-> Encrypt("hexsha_c2", VaultKey, "n2")]
      [] s = "hraw1" -> [err |-> FALSE, val |-> Encrypt("sha_c1", VaultKey, "n1")]
      [] s \in {"ebad", "hbad"} ->
            [err |-> FALSE, val |-> [i \in 1..(NonceSize + 1) |-> JunkByte]]
      [] s = "" -> [err |-> FALSE, val |-> <<>>]
      [] OTHER -> [err |-> TRUE, val |-> <<>>]

\* hex.EncodeToString of the bytes of a field: the string that spells them
HexEncodeToString(bytes) ==
    CHOOSE s \in {"e1", "e2", "h0", "h1", "h2", "hraw1"} :
        HexDecodeField(s) = [err |-> FALSE, val |-> bytes]

\* PushFile lines 281-297: the Hash field of the descriptor of a push of
\* content, rand.Reader giving nonce to the Encrypt of the digest
PushFileHash(content, nonce) ==
    LET contentSum == Sha256(content)
        encryptedContentSum == Encrypt(contentSum, VaultKey, nonce)
    IN  HexEncodeToString(encryptedContentSum)

\* crypto.DecryptString
DecryptString(s, key) ==
    LET encrypted == HexDecodeField(s)
    IN  IF encrypted.err THEN [res |-> "err", val |-> ""]
        ELSE Decrypt(encrypted.val, key)

(***************************************************************************)
(* api: PullFile (synchronous discipline)                                  *)
(***************************************************************************)
NoPull ==
    [pc |-> "idle", expected |-> "", size |-> 0, pieces |-> 0, n |-> 0,
     data |-> <<>>, content |-> "", result |-> "none", tried |-> FALSE]

HeaderMatcher == JsonKeysMatcher({"hash", "size", "pieces"})

SizeAtLeast(data, size) == Len(data) >= size

\* line 236, negated: the byte count matches the size of the header
SizeMatches(data, size) == Len(data) = size

\* lines 247-263: the digest of the content is the expected one
HashMatches(content, digest) == Sha256(content) = digest

PullFails == [pull EXCEPT !.pc = "returned", !.result = "err"]

\* the wait for the next piece, or the size check once all have come
AfterPiece(p) ==
    IF p.n < p.pieces
    THEN /\ pull' = p
         /\ EnterAwait(BinaryMatcher)
    ELSE /\ pull' = [p EXCEPT !.pc = "size"]
         /\ UNCHANGED <<nmm, got>>

\* lines 194-212: the pull request is sent and the header awaited
PullFileCall(expectedEncryptedHash, sendOk) ==
    /\ pull.pc = "idle"
    /\ IF sendOk
       THEN /\ sent' = Append(sent, "pull")
            /\ pull' = [NoPull EXCEPT !.pc = "header",
                                      !.expected = expectedEncryptedHash]
            /\ EnterAwait(HeaderMatcher)
       ELSE /\ pull' = [NoPull EXCEPT !.pc = "returned", !.result = "err",
                                      !.expected = expectedEncryptedHash]
            /\ UNCHANGED <<sent, nmm, got>>
    /\ UNCHANGED <<filteredQueue, nread, readLog, returned>>

\* lines 209-223: the header has come, or the read failed
PullFileHeader ==
    /\ pull.pc = "header"
    /\ got.done
    /\ IF got.err \/ got.frame.kind = "header_bad"
       THEN /\ pull' = PullFails
            /\ UNCHANGED <<nmm, got>>
       ELSE AfterPiece([pull EXCEPT !.pc = "pieces",
                                    !.size = got.frame.size,
                                    !.pieces = got.frame.pieces])
    /\ UNCHANGED <<filteredQueue, nread, readLog, returned, sent>>

\* lines 227-233: a piece has come, or the read failed
PullFilePiece ==
    /\ pull.pc = "pieces"
    /\ got.done
    /\ IF got.err
       THEN /\ pull' = PullFails
            /\ UNCHANGED <<nmm, got>>
       ELSE AfterPiece([pull EXCEPT !.n = @ + 1,
                                    !.data = @ \o got.frame.bytes])
    /\ UNCHANGED <<filteredQueue, nread, readLog, returned, sent>>

\* lines 235-238: the byte count is compared with the size of the header
PullFileCheckSize ==
    /\ pull.pc = "size"
    /\ pull' = IF SizeMatches(pull.data, pull.size)
               THEN [pull EXCEPT !.pc = "decrypt"]
               ELSE PullFails
    /\ UNCHANGED <<routerVars, sent>>

\* lines 240-244: the data is decrypted
PullFileDecrypt ==
    /\ pull.pc = "decrypt"
    /\ LET decrypted == Decrypt(pull.data, VaultKey)
       IN  pull' = CASE decrypted.res = "ok" ->
                          [pull EXCEPT !.pc = "hash", !.tried = TRUE,
                                       !.content = decrypted.val]
                     [] decrypted.res = "err" ->
                          [pull EXCEPT !.pc = "returned", !.result = "err",
                                       !.tried = TRUE]
                     [] OTHER ->
                          [pull EXCEPT !.pc = "crashed", !.result = "panic",
                                       !.tried = TRUE]
    /\ UNCHANGED <<routerVars, sent>>

\* lines 246-265: the digest is compared with the expected hash
PullFileCheckHash ==
    /\ pull.pc = "hash"
    /\ LET decryptedExpectedHash == DecryptString(pull.expected, VaultKey)
           expectedHashBytes == HexDecodeDigest(decryptedExpectedHash.val)
       IN  pull' = CASE decryptedExpectedHash.res = "panic" ->
                          [pull EXCEPT !.pc = "crashed", !.result = "panic"]
                     [] decryptedExpectedHash.res = "err" -> PullFails
                     [] expectedHashBytes.err -> PullFails
                     [] ~HashMatches(pull.content, expectedHashBytes.val) -> PullFails
                     [] OTHER -> [pull EXCEPT !.pc = "returned", !.result = "content"]
    /\ UNCHANGED <<routerVars, sent>>

XferIdle ==
    /\ pull = NoPull
    /\ sent = <<>>

(***************************************************************************)
(* api: PushFile.  pushing.log lists what the exchange in progress has     *)
(* sent and consumed; failed tells that a transport operation of the       *)
(* exchange failed.                                                        *)
(***************************************************************************)
NoExchange ==
    [pc |-> "idle", result |-> "none", log |-> <<>>, failed |-> FALSE]

Sent(kind) == [dir |-> "send", kind |-> kind]

Consumed(f) == [dir |-> "recv", kind |-> f.kind]

\* json.Unmarshal into IncomingPushMessage succeeds
IsIncomingPush(f) == IsJson(f) /\ f.kind \notin {"op_push_bad", "header_bad"}

PushFileFails(transport) ==
    [pushing EXCEPT !.pc = "returned", !.result = "err",
                    !.failed = @ \/ transport]

PushFileSucceeds(f) ==
    [pushing EXCEPT !.pc = "returned", !.result = "ok",
                    !.log = Append(@, Consumed(f))]

\* the descriptor is sent, or an Encrypt or the send fails
PushFileSend(encryptOk, sendOk) ==
    /\ pushing.pc \in {"idle", "returned"}
    /\ pushing.result # "err"
    /\ IF encryptOk /\ sendOk
       THEN /\ pushing' = [NoExchange EXCEPT !.pc = "next",
                                             !.log = <<Sent("push")>>]
            /\ sent' = Append(sent, "push")
       ELSE /\ pushing' = [NoExchange EXCEPT !.pc = "returned",
                                             !.result = "err",
                                             !.failed = encryptOk]
            /\ UNCHANGED sent

\* response is the {res: next} frame: the payload is sent in one frame
PushFileSendBinary(response, sendOk) ==
    IF sendOk
    THEN /\ pushing' = [pushing EXCEPT !.pc = "echo",
                           !.log = @ \o <<Consumed(response), Sent("bin")>>]
         /\ sent' = Append(sent, "bin")
    ELSE /\ pushing' = [PushFileFails(TRUE) EXCEPT
                           !.log = Append(@, Consumed(response))]
         /\ UNCHANGED sent

\* part_000 lines 268-310: the synchronous PushFile up to its first wait
PushFileCall(encryptOk, sendOk) ==
    /\ PushFileSend(encryptOk, sendOk)
    /\ IF encryptOk /\ sendOk
       THEN EnterAwait(JsonValueMatcher("res", "next"))
       ELSE UNCHANGED <<nmm, got>>
    /\ UNCHANGED <<filteredQueue, nread, readLog, returned>>

\* part_000 lines 308-333
PushFileNext(sendOk) ==
    /\ pushing.pc = "next"
    /\ got.done
    /\ IF got.err \/ FieldOf(got.frame, "res") # "next"
       THEN /\ pushing' = PushFileFails(got.err)
            /\ UNCHANGED <<sent, nmm, got>>
       ELSE /\ PushFileSendBinary(got.frame, sendOk)
            /\ IF sendOk
               THEN EnterAwait(JsonValueMatcher("op", "push"))
               ELSE UNCHANGED <<nmm, got>>
    /\ UNCHANGED <<filteredQueue, nread, readLog, returned>>

\* part_000 lines 329-344
PushFileEcho ==
    /\ pushing.pc = "echo"
    /\ got.done
    /\ IF got.err \/ ~IsIncomingPush(got.frame)
       THEN /\ pushing' = PushFileFails(got.err)
            /\ UNCHANGED <<nmm, got>>
       ELSE /\ pushing' = [pushing EXCEPT !.pc = "ok",
                              !.log = Append(@, Consumed(got.frame))]
            /\ EnterAwait(JsonValueMatcher("op", "ok"))
    /\ UNCHANGED <<filteredQueue, nread, readLog, returned, sent>>

\* part_000 lines 340-355
PushFileOk ==
    /\ pushing.pc = "ok"
    /\ got.done
    /\ pushing' = IF got.err \/ FieldOf(got.frame, "op") # "ok"
                  THEN PushFileFails(got.err)
                  ELSE PushFileSucceeds(got.frame)
    /\ UNCHANGED <<routerVars, sent>>

(***************************************************************************)
(* api, asynchronous variant: listenForMessages feeds unhandledMessages,   *)
(* and handleMessages and the exchanges take from it.                      *)
(***************************************************************************)
\* part_001 lines 135-143: a frame is read and put on the channel
ListenForMessages(f) ==
    /\ pushing.pc # "exited"
    /\ f.id = nread + 1
    /\ nread' = nread + 1
    /\ readLog' = Append(readLog, f)
    /\ unhandledMessages' = Append(unhandledMessages, f)
    /\ UNCHANGED <<filteredQueue, nmm, got, returned, pushing, sent>>

\* part_001 lines 114-120 and 137-140: the read fails and log.Fatalf ends
\* the process
ListenForMessagesErr ==
    /\ pushing.pc # "exited"
    /\ pushing' = [pushing EXCEPT !.pc = "exited"]
    /\ UNCHANGED <<routerVars, unhandledMessages, sent>>

\* handleMessage returns an error for this frame: an op without handler, a
\* binary frame (the registered handler panics), or a handler's own error
HandleMessageFails(f, handlerErr) ==
    \/ IsJson(f) /\ FieldOf(f, "op") \notin {"", "pong", "push", "ready"}
    \/ ~IsJson(f)
    \/ IsJson(f) /\ FieldOf(f, "op") # "pong" /\ handlerErr

\* part_001 lines 158-210: handleMessages takes the next frame and
\* dispatches it; an error ends the process
HandleMessages(handlerErr) ==
    /\ pushing.pc # "exited"
    /\ unhandledMessages # <<>>
    /\ unhandledMessages' = Tail(unhandledMessages)
    /\ pushing' = IF HandleMessageFails(Head(unhandledMessages), handlerErr)
                  THEN [pushing EXCEPT !.pc = "exited"]
                  ELSE pushing
    /\ UNCHANGED <<routerVars, sent>>

\* part_001 lines 396-434
AsyncPushFileCall(encryptOk, sendOk) ==
    /\ PushFileSend(encryptOk, sendOk)
    /\ UNCHANGED <<routerVars, unhandledMessages>>

\* part_001 lines 436-450
AsyncPushFileNext(sendOk) ==
    /\ pushing.pc = "next"
    /\ unhandledMessages # <<>>
    /\ unhandledMessages' = Tail(unhandledMessages)
    /\ LET response == Head(unhandledMessages)
       IN  IF ~IsJson(response) \/ FieldOf(response, "res") # "next"
           THEN /\ pushing' = PushFileFails(FALSE)
                /\ UNCHANGED sent
           ELSE PushFileSendBinary(response, sendOk)
    /\ UNCHANGED routerVars

\* part_001 lines 452-458
AsyncPushFileEcho ==
    /\ pushing.pc = "echo"
    /\ unhandledMessages # <<>>
    /\ unhandledMessages' = Tail(unhandledMessages)
    /\ LET response == Head(unhandledMessages)
       IN  pushing' = IF ~IsIncomingPush(response)
                      THEN PushFileFails(FALSE)
                      ELSE [pushing EXCEPT !.pc = "ok",
                               !.log = Append(@, Consumed(response))]
    /\ UNCHANGED <<routerVars, sent>>

\* part_001 lines 460-472
AsyncPushFileOk ==
    /\ pushing.pc = "ok"
    /\ unhandledMessages # <<>>
    /\ unhandledMessages' = Tail(unhandledMessages)
    /\ LET response == Head(unhandledMessages)
       IN  pushing' = IF ~IsJson(response) \/ FieldOf(response, "op") # "ok"
                      THEN PushFileFails(FALSE)
                      ELSE PushFileSucceeds(response)
    /\ UNCHANGED <<routerVars, sent>>

PushIdle ==
    /\ pushing = NoExchange
    /\ unhandledMessages = <<>>

(***************************************************************************)
(* The write path.  ws.WriteJSON and ws.WriteMessage take time: a write is *)
(* in progress from the moment a goroutine enters sendMessage, sendBinary, *)
(* Send or SendBinary until the call returns.  writing holds the writes in *)
(* progress, each with its goroutine; no lock is taken around a write.     *)
(***************************************************************************)
Goroutines == {"main", "handler", "syncer", "keepAlive"}

Write(g, i, kind) == [g |-> g, i |-> i, kind |-> kind]

IsWriting(g, i) == \E w \in writing : w.g = g /\ w.i = i

Running == gpc["main"] # "stopped"

\* sendMessage, sendBinary, Send, SendBinary: the write starts
BeginWrite(g, i, kind) ==
    /\ Running
    /\ ~IsWriting(g, i)
    /\ Len(sent) + Cardinality(writing) < MaxSends
    /\ writing' = writing \cup {Write(g, i, kind)}
    /\ UNCHANGED sent

\* the write returns, having sent the frame or failed
EndWrite(g, i, ok) ==
    /\ Running
    /\ IsWriting(g, i)
    /\ LET w == CHOOSE w \in writing : w.g = g /\ w.i = i
       IN  /\ writing' = writing \ {w}
           /\ sent' = IF ok THEN Append(sent, w.kind) ELSE sent

Waits == 1..MaxWaits

NoGoroutine == [pc |-> "none", tmp |-> 0]

\* the sends of the protocol exchanges a pass runs: PullFile's request,
\* PushFile's descriptor and payload
ExchangeSends == {"pull", "push", "bin"}

\* part_000 SendInit and GetSizeConfig, PullFile and PushFile as SyncFiles
\* calls them; part_001 SendInit: the main goroutine starts a send
MainSendBegin(kind) ==
    /\ \/ gpc["main"] = "init" /\ kind = "init"
       \/ variant = "sync" /\ gpc["main"] = "size" /\ kind = "size"
       \/ variant = "sync" /\ gpc["main"] = "sync" /\ kind \in ExchangeSends
    /\ BeginWrite("main", 0, kind)
    /\ UNCHANGED <<gpc, waits, reader, pinger, unansweredPingCount>>

\* the send returns; an error is returned up to main and ends the process;
\* after the request of an exchange main waits for the answer in
\* nextMessageMatching
MainSendEnd(ok) ==
    /\ EndWrite("main", 0, ok)
    /\ gpc' = [gpc EXCEPT !["main"] =
                  IF ~ok THEN "stopped"
                  ELSE IF @ = "init"
                       THEN (IF variant = "sync" THEN "size" ELSE "logs")
                       ELSE IF @ = "size" THEN "sync"
                       ELSE "await"]
    /\ UNCHANGED <<waits, reader, pinger, unansweredPingCount>>

\* part_000 PullFile and PushFile: the nextMessageMatching call main waits
\* in returns the answer, or the error that ends the process
MainAwaitEnd(ok) ==
    /\ Running
    /\ gpc["main"] = "await"
    /\ gpc' = [gpc EXCEPT !["main"] = IF ok THEN "sync" ELSE "stopped"]
    /\ UNCHANGED <<writing, sent, waits, reader, pinger, unansweredPingCount>>

\* part_004 StartDaemon and part_000 lines 358-416: SyncFiles has returned
\* and WaitForPushMessage starts its two goroutines
WaitForPushMessage ==
    /\ Running
    /\ variant = "sync"
    /\ gpc["main"] = "sync"
    /\ ~IsWriting("main", 0)
    /\ waits < MaxWaits
    /\ waits' = waits + 1
    /\ gpc' = [gpc EXCEPT !["main"] = "wait"]
    /\ reader' = [reader EXCEPT ![waits + 1] = [pc |-> "read", tmp |-> 0]]
    /\ pinger' = [pinger EXCEPT ![waits + 1] = [pc |-> "select", tmp |-> 0]]
    /\ unansweredPingCount' = [unansweredPingCount EXCEPT ![waits + 1] = 0]
    /\ UNCHANGED <<writing, sent>>

\* main is in the select of call i
Selecting(i) == gpc["main"] = "wait" /\ waits = i

\* part_000 lines 368-388: the reader of call i gets a push; main takes it
\* from resultChan if it is still in the select
ReaderPush(i) ==
    /\ Running
    /\ reader[i].pc = "read"
    /\ nread < MaxFrames
    /\ nread' = nread + 1
    /\ IF Selecting(i)
       THEN /\ gpc' = [gpc EXCEPT !["main"] = "sync"]
            /\ reader' = [reader EXCEPT ![i].pc =
                             IF unansweredPingCount[i] = 0 THEN "signal"
                             ELSE "read"]
       ELSE /\ reader' = [reader EXCEPT ![i].pc = "blocked"]
            /\ UNCHANGED gpc
    /\ UNCHANGED <<writing, sent, waits, pinger, unansweredPingCount>>

\* lines 389-390: the reader gets a pong and loads the counter
ReaderPong(i) ==
    /\ Running
    /\ reader[i].pc = "read"
    /\ nread < MaxFrames
    /\ nread' = nread + 1
    /\ reader' = [reader EXCEPT ![i] = [pc |-> "store",
                                        tmp |-> unansweredPingCount[i]]]
    /\ UNCHANGED <<writing, sent, gpc, waits, pinger, unansweredPingCount>>

\* line 390: the reader stores the decremented counter
ReaderStore(i) ==
    /\ Running
    /\ reader[i].pc = "store"
    /\ unansweredPingCount' =
          [unansweredPingCount EXCEPT ![i] = reader[i].tmp - 1]
    /\ reader' = [reader EXCEPT ![i].pc = "read"]
    /\ UNCHANGED <<writing, sent, gpc, waits, pinger, nread>>

\* lines 372-374: the read fails; main takes the error from errorChan if
\* it is still in the select, and the reader blocks on its next error
ReaderErr(i) ==
    /\ Running
    /\ reader[i].pc = "read"
    /\ reader' = [reader EXCEPT ![i].pc = "blocked"]
    /\ gpc' = IF Selecting(i) THEN [gpc EXCEPT !["main"] = "stopped"] ELSE gpc
    /\ UNCHANGED <<writing, sent, waits, pinger, unansweredPingCount, nread>>

\* lines 399-408: the timer of the pinger of call i fires and the ping is
\* being sent
PingerTick(i) ==
    /\ pinger[i].pc = "select"
    /\ BeginWrite("pinger", i, "ping")
    /\ pinger' = [pinger EXCEPT ![i].pc = "write"]
    /\ UNCHANGED <<gpc, waits, reader, unansweredPingCount>>

\* lines 404-411: the send returns; an error goes to errorChan, which main
\* takes if it is still in the select; then the counter is loaded
PingerSent(i, ok) ==
    /\ pinger[i].pc = "write"
    /\ EndWrite("pinger", i, ok)
    /\ IF ok \/ Selecting(i)
       THEN pinger' = [pinger EXCEPT ![i] = [pc |-> "store",
                                             tmp |-> unansweredPingCount[i]]]
       ELSE pinger' = [pinger EXCEPT ![i].pc = "blocked"]
    /\ gpc' = IF ~ok /\ Selecting(i)
              THEN [gpc EXCEPT !["main"] = "stopped"]
              ELSE gpc
    /\ UNCHANGED <<waits, reader, unansweredPingCount>>

\* line 411: the pinger stores the incremented counter
PingerStore(i) ==
    /\ Running
    /\ pinger[i].pc = "store"
    /\ unansweredPingCount' =
          [unansweredPingCount EXCEPT ![i] = pinger[i].tmp + 1]
    /\ pinger' = [pinger EXCEPT ![i].pc = "select"]
    /\ UNCHANGED <<writing, sent, gpc, waits, reader>>

\* lines 384-387 and 412-413: the reader hands over doneChan and both
\* goroutines return
PingerDone(i) ==
    /\ Running
    /\ pinger[i].pc = "select"
    /\ reader[i].pc = "signal"
    /\ pinger' = [pinger EXCEPT ![i].pc = "returned"]
    /\ reader' = [reader EXCEPT ![i].pc = "returned"]
    /\ UNCHANGED <<writing, sent, gpc, waits, unansweredPingCount>>

\* part_001 lines 258-269: keepAlive wakes and the ping is being sent
KeepAliveTick ==
    /\ variant = "async"
    /\ gpc["keepAlive"] = "sleep"
    /\ BeginWrite("keepAlive", 0, "ping")
    /\ gpc' = [gpc EXCEPT !["keepAlive"] = "write"]
    /\ UNCHANGED <<waits, reader, pinger, unansweredPingCount>>

\* the send returns; an error ends keepAlive and log.Fatalf the process
KeepAliveSent(ok) ==
    /\ gpc["keepAlive"] = "write"
    /\ EndWrite("keepAlive", 0, ok)
    /\ gpc' = IF ok THEN [gpc EXCEPT !["keepAlive"] = "sleep"]
              ELSE [gpc EXCEPT !["main"] = "stopped"]
    /\ UNCHANGED <<waits, reader, pinger, unansweredPingCount>>

\* part_004 lines 427-441: handleMessages runs onReady for the ready frame
\* that answers init, and the size request is being sent
OnReadyBegin ==
    /\ variant = "async"
    /\ gpc["handler"] = "listen"
    /\ \E n \in 1..Len(sent) : sent[n] = "init"
    /\ nread < MaxFrames
    /\ nread' = nread + 1
    /\ BeginWrite("handler", 0, "size")
    /\ gpc' = [gpc EXCEPT !["handler"] = "write"]
    /\ UNCHANGED <<waits, reader, pinger, unansweredPingCount>>

\* part_004 lines 441-450: the send returns; onReady goes on to QueueSync,
\* or returns the error, which log.Fatalf the process
OnReadySent(ok) ==
    /\ gpc["handler"] = "write"
    /\ EndWrite("handler", 0, ok)
    /\ gpc' = IF ok THEN [gpc EXCEPT !["handler"] = "signal"]
              ELSE [gpc EXCEPT !["main"] = "stopped"]
    /\ UNCHANGED <<waits, reader, pinger, unansweredPingCount>>

\* part_004 lines 368-381 and 453-457: the syncer takes the sync signal
\* and runs DoSync
DoSyncBegin ==
    /\ Running
    /\ gpc["handler"] = "signal"
    /\ gpc["syncer"] = "idle"
    /\ gpc' = [gpc EXCEPT !["handler"] = "listen", !["syncer"] = "sync"]
    /\ UNCHANGED <<writing, sent, waits, reader, pinger, unansweredPingCount>>

\* part_001 PullFile and PushFile as DoSync calls them: a send starts
DoSyncSendBegin(kind) ==
    /\ gpc["syncer"] = "sync"
    /\ kind \in ExchangeSends
    /\ BeginWrite("syncer", 0, kind)
    /\ UNCHANGED <<gpc, waits, reader, pinger, unansweredPingCount>>

\* the send returns; an error ends DoSync and log.Fatalf the process
DoSyncSendEnd(ok) ==
    /\ EndWrite("syncer", 0, ok)
    /\ gpc' = IF ok THEN gpc ELSE [gpc EXCEPT !["main"] = "stopped"]
    /\ UNCHANGED <<waits, reader, pinger, unansweredPingCount>>

\* DoSync returns
DoSyncEnd ==
    /\ Running
    /\ gpc["syncer"] = "sync"
    /\ ~IsWriting("syncer", 0)
    /\ gpc' = [gpc EXCEPT !["syncer"] = "idle"]
    /\ UNCHANGED <<writing, sent, waits, reader, pinger, unansweredPingCount>>

SendIdle ==
    /\ writing = {}
    /\ gpc = [g \in Goroutines |-> "none"]
    /\ waits = 0
    /\ reader = [i \in Waits |-> NoGoroutine]
    /\ pinger = [i \in Waits |-> NoGoroutine]
    /\ unansweredPingCount = [i \in Waits |-> 0]

(***************************************************************************)
(* api: SendInit (synchronous discipline)                                  *)
(***************************************************************************)
NoHandshake ==
    [pc |-> "idle", result |-> "none", PushedFiles |-> <<>>, RemoteUid |-> 0]

PushOrReady == JsonOpMatcher({"push", "ready"})

PushedFilesPrepend(pushedFiles, fileData) == <<fileData>> \o pushedFiles

\* line 140: pushedFiles = append(pushedFiles, fileData)
PushedFilesAppend(pushedFiles, fileData) == Append(pushedFiles, fileData)

SendInitFails == [handshake EXCEPT !.pc = "returned", !.result = "err"]

\* lines 85-107: init is sent and the acknowledgment awaited
SendInitCall(sendOk) ==
    /\ handshake.pc = "idle"
    /\ IF sendOk
       THEN /\ sent' = Append(sent, "init")
            /\ handshake' = [handshake EXCEPT !.pc = "ack"]
            /\ EnterAwait(JsonValueMatcher("res", "ok"))
       ELSE /\ handshake' = SendInitFails
            /\ UNCHANGED <<sent, nmm, got>>
    /\ UNCHANGED <<filteredQueue, nread, readLog, returned>>

\* lines 106-118: the acknowledgment has come, or the read failed
SendInitAck ==
    /\ handshake.pc = "ack"
    /\ got.done
    /\ IF got.err \/ FieldOf(got.frame, "res") # "ok"
       THEN /\ handshake' = SendInitFails
            /\ UNCHANGED <<nmm, got>>
       ELSE /\ handshake' = [handshake EXCEPT !.pc = "loop"]
            /\ EnterAwait(PushOrReady)
    /\ UNCHANGED <<filteredQueue, nread, readLog, returned, sent>>

\* lines 122-154: one iteration of the loop over the snapshot
SendInitLoop ==
    /\ handshake.pc = "loop"
    /\ got.done
    /\ CASE got.err ->
              /\ handshake' = SendInitFails
              /\ UNCHANGED <<nmm, got>>
         [] ~got.err /\ FieldOf(got.frame, "op") = "push" ->
              IF IsIncomingPush(got.frame)
              THEN /\ handshake' = [handshake EXCEPT !.PushedFiles =
                                       PushedFilesAppend(@, got.frame)]
                   /\ EnterAwait(PushOrReady)
              ELSE /\ handshake' = SendInitFails
                   /\ UNCHANGED <<nmm, got>>
         [] ~got.err /\ FieldOf(got.frame, "op") = "ready" ->
              /\ handshake' = IF got.frame.kind = "op_ready_bad"
                              THEN SendInitFails
                              ELSE [handshake EXCEPT
                                       !.pc = "returned", !.result = "ok",
                                       !.RemoteUid = got.frame.version]
              /\ UNCHANGED <<nmm, got>>
         [] OTHER ->
              /\ handshake' = SendInitFails
              /\ UNCHANGED <<nmm, got>>
    /\ UNCHANGED <<filteredQueue, nread, readLog, returned, sent>>

InitIdle == handshake = NoHandshake

(***************************************************************************)
(* sync: State, UpdateWithPush, SyncFiles, StartDaemon                     *)
(***************************************************************************)
\* the path keys of the maps: the encrypted, hex-encoded paths of pushes
Paths == {"e1", "e2", "ebad"}

\* crypto.DecryptString(path, password, salt) as SyncFiles calls it
DecryptPath(path) ==
    LET decrypted == DecryptString(path, VaultKey)
    IN  [err |-> decrypted.res # "ok", val |-> decrypted.val]

Times == 0..MaxTime

\* the zero values Go's map lookup gives for an absent key
ZeroLocal == [Path |-> "", Created |-> 0, Modified |-> 0, IsFolder |-> FALSE]

ZeroRemote ==
    [Uid |-> 0, EncryptedPath |-> "", EncryptedHash |-> "", Created |-> 0,
     Modified |-> 0, IsFolder |-> FALSE]

Lookup(map, path, zero) == IF path \in DOMAIN map THEN map[path] ELSE zero

\* delete(map, path)
MapDelete(map, path) == [q \in DOMAIN map \ {path} |-> map[q]]

\* map[path] = entry
MapSet(map, path, entry) ==
    [q \in DOMAIN map \cup {path} |-> IF q = path THEN entry ELSE map[q]]

EmptyMap == [q \in {} |-> ZeroLocal]

NoPush ==
    [EncryptedPath |-> "", EncryptedHash |-> "", Ctime |-> 0, Mtime |-> 0,
     Folder |-> FALSE, Deleted |-> FALSE, Uid |-> 0]

UpdateWithPushKeepsTombstone(remote, push) ==
    MapSet(remote, push.EncryptedPath,
           [EncryptedPath |-> push.EncryptedPath,
            IsFolder |-> push.Folder,
            EncryptedHash |-> push.EncryptedHash,
            Uid |-> push.Uid,
            Created |-> push.Ctime,
            Modified |-> push.Mtime])

\* State.UpdateWithPush: the remote map after the push
UpdateWithPush(remote, push) ==
    IF push.Deleted
    THEN MapDelete(remote, push.EncryptedPath)
    ELSE MapSet(remote, push.EncryptedPath,
                [EncryptedPath |-> push.EncryptedPath,
                 IsFolder |-> push.Folder,
                 EncryptedHash |-> push.EncryptedHash,
                 Uid |-> push.Uid,
                 Created |-> push.Ctime,
                 Modified |-> push.Mtime])

\* the five lists SyncFiles declares
NoDecisions ==
    [pullPaths |-> <<>>, pushPaths |-> <<>>, newFolderPaths |-> <<>>,
     deletePaths |-> <<>>, conflictPaths |-> <<>>]

RemoteLoopBodyPullNe(d, path, local, remote) ==
    LET remoteFile == remote[path]
        inLocal == path \in DOMAIN local
        localFile == Lookup(local, path, ZeroLocal)
    IN  IF inLocal
        THEN LET d1 == IF localFile.IsFolder # remoteFile.IsFolder
                       THEN [d EXCEPT
                               !.deletePaths = Append(@, path),
                               !.pullPaths =
                                   IF localFile.IsFolder
                                   THEN Append(@, path) ELSE @,
                               !.newFolderPaths =
                                   IF localFile.IsFolder
                                   THEN @ ELSE Append(@, path)]
                       ELSE d
             IN  IF ~localFile.IsFolder
                 THEN [d1 EXCEPT
                         !.pullPaths =
                             IF localFile.Modified # remoteFile.Modified
                             THEN Append(@, path) ELSE @,
                         !.conflictPaths =
                             IF localFile.Modified > remoteFile.Modified
                             THEN Append(@, path) ELSE @]
                 ELSE d1
        ELSE IF remoteFile.IsFolder
             THEN [d EXCEPT !.newFolderPaths = Append(@, path)]
             ELSE [d EXCEPT !.pullPaths = Append(@, path)]

RemoteLoopBodyPullLe(d, path, local, remote) ==
    LET remoteFile == remote[path]
        inLocal == path \in DOMAIN local
        localFile == Lookup(local, path, ZeroLocal)
    IN  IF inLocal
        THEN LET d1 == IF localFile.IsFolder # remoteFile.IsFolder
                       THEN [d EXCEPT
                               !.deletePaths = Append(@, path),
                               !.pullPaths =
                                   IF localFile.IsFolder
                                   THEN Append(@, path) ELSE @,
                               !.newFolderPaths =
                                   IF localFile.IsFolder
                                   THEN @ ELSE Append(@, path)]
                       ELSE d
             IN  IF ~localFile.IsFolder
                 THEN [d1 EXCEPT
                         !.pullPaths =
                             IF localFile.Modified <= remoteFile.Modified
                             THEN Append(@, path) ELSE @,
                         !.conflictPaths =
                             IF localFile.Modified > remoteFile.Modified
                             THEN Append(@, path) ELSE @]
                 ELSE d1
        ELSE IF remoteFile.IsFolder
             THEN [d EXCEPT !.newFolderPaths = Append(@, path)]
             ELSE [d EXCEPT !.pullPaths = Append(@, path)]

RemoteLoopBodyPullAlways(d, path, local, remote) ==
    LET remoteFile == remote[path]
        inLocal == path \in DOMAIN local
        localFile == Lookup(local, path, ZeroLocal)
    IN  IF inLocal
        THEN LET d1 == IF localFile.IsFolder # remoteFile.IsFolder
                       THEN [d EXCEPT
                               !.deletePaths = Append(@, path),
                               !.pullPaths =
                                   IF localFile.IsFolder
                                   THEN Append(@, path) ELSE @,
                               !.newFolderPaths =
                                   IF localFile.IsFolder
                                   THEN @ ELSE Append(@, path)]
                       ELSE d
             IN  IF ~localFile.IsFolder
                 THEN [d1 EXCEPT
                         !.pullPaths =
                             IF localFile.Modified < remoteFile.Modified
                             THEN Append(@, path) ELSE @,
                         !.conflictPaths =
                             IF localFile.Modified > remoteFile.Modified
                             THEN Append(@, path) ELSE @]
                 ELSE d1
        ELSE [d EXCEPT !.pullPaths = Append(@, path)]

\* SyncFiles, the body of the loop over RemoteEntries
RemoteLoopBody(d, path, local, remote) ==
    LET remoteFile == remote[path]
        inLocal == path \in DOMAIN local
        localFile == Lookup(local, path, ZeroLocal)
    IN  IF inLocal
        THEN LET d1 == IF localFile.IsFolder # remoteFile.IsFolder
                       THEN [d EXCEPT
                               !.deletePaths = Append(@, path),
                               !.pullPaths =
                                   IF localFile.IsFolder
                                   THEN Append(@, path) ELSE @,
                               !.newFolderPaths =
                                   IF localFile.IsFolder
                                   THEN @ ELSE Append(@, path)]
                       ELSE d
             IN  IF ~localFile.IsFolder
                 THEN [d1 EXCEPT
                         !.pullPaths =
                             IF localFile.Modified < remoteFile.Modified
                             THEN Append(@, path) ELSE @,
                         !.conflictPaths =
                             IF localFile.Modified > remoteFile.Modified
                             THEN Append(@, path) ELSE @]
                 ELSE d1
        ELSE IF remoteFile.IsFolder
             THEN [d EXCEPT !.newFolderPaths = Append(@, path)]
             ELSE [d EXCEPT !.pullPaths = Append(@, path)]

LocalLoopBodyNoGuard(d, path, local, remote, lastSync) ==
    LET localFile == local[path]
        inRemote == path \in DOMAIN remote
        remoteFile == Lookup(remote, path, ZeroRemote)
    IN  [d EXCEPT
            !.pushPaths =
                IF localFile.Modified > remoteFile.Modified
                THEN Append(@, path) ELSE @,
            !.deletePaths =
                IF ~inRemote /\ localFile.Created < lastSync
                THEN Append(@, path) ELSE @]

LocalLoopBodyStaleByMtime(d, path, local, remote, lastSync) ==
    LET localFile == local[path]
        inRemote == path \in DOMAIN remote
        remoteFile == Lookup(remote, path, ZeroRemote)
    IN  IF ~inRemote
        THEN [d EXCEPT
                !.pushPaths =
                    IF localFile.Modified > remoteFile.Modified
                    THEN Append(@, path) ELSE @,
                !.deletePaths =
                    IF localFile.Modified < lastSync
                    THEN Append(@, path) ELSE @]
        ELSE d

\* SyncFiles, the body of the loop over LocalFiles
LocalLoopBody(d, path, local, remote, lastSync) ==
    LET localFile == local[path]
        inRemote == path \in DOMAIN remote
        remoteFile == Lookup(remote, path, ZeroRemote)
    IN  IF ~inRemote
        THEN [d EXCEPT
                !.pushPaths =
                    IF localFile.Modified > remoteFile.Modified
                    THEN Append(@, path) ELSE @,
                !.deletePaths =
                    IF localFile.Created < lastSync
                    THEN Append(@, path) ELSE @]
        ELSE d

RECURSIVE RemoteLoopUntilConflict(_, _, _, _)
RemoteLoopUntilConflict(d, order, local, remote) ==
    IF order = <<>> \/ d.conflictPaths # <<>> THEN d
    ELSE RemoteLoopUntilConflict(RemoteLoopBody(d, Head(order), local, remote),
                                 Tail(order), local, remote)

RECURSIVE RemoteLoop(_, _, _, _)
RemoteLoop(d, order, local, remote) ==
    IF order = <<>> THEN d
    ELSE RemoteLoop(RemoteLoopBody(d, Head(order), local, remote),
                    Tail(order), local, remote)

RECURSIVE LocalLoop(_, _, _, _, _)
LocalLoop(d, order, local, remote, lastSync) ==
    IF order = <<>> THEN d
    ELSE LocalLoop(LocalLoopBody(d, Head(order), local, remote, lastSync),
                   Tail(order), local, remote, lastSync)

\* the orders in which a range over a map with these keys may run
Orders(keys) ==
    {o \in [1..Cardinality(keys) -> keys] :
        \A i, j \in 1..Cardinality(keys) : i # j => o[i] # o[j]}

\* SyncFiles, the decision step: the lists, for one order of each range
Decide(local, remote, lastSync, orderR, orderL) ==
    LocalLoop(RemoteLoop(NoDecisions, orderR, local, remote),
              orderL, local, remote, lastSync)

ListOf(d, loop) ==
    CASE loop = "conflict" -> d.conflictPaths
      [] loop = "delete" -> d.deletePaths
      [] loop = "folder" -> d.newFolderPaths
      [] loop = "pull" -> d.pullPaths
      [] loop = "push" -> d.pushPaths
      [] OTHER -> <<>>

LoopsPushFirst == <<"conflict", "push", "pull", "folder", "delete">>

\* the order of the loops that execute the decisions
Loops == <<"conflict", "delete", "folder", "pull", "push">>

\* the first loop from position n on that has something to do
RECURSIVE LoopFrom(_, _)
LoopFrom(d, n) ==
    IF n > Len(Loops) THEN "stamp"
    ELSE IF ListOf(d, Loops[n]) # <<>> THEN Loops[n]
    ELSE LoopFrom(d, n + 1)

LoopIndex(loop) == CHOOSE n \in 1..Len(Loops) : Loops[n] = loop

Standing(pc) ==
    [pc |-> pc, i |-> 0, d |-> NoDecisions]

\* the pass moves on after iteration pass.i of its current loop
Advance ==
    IF pass.i < Len(ListOf(pass.d, pass.pc))
    THEN [pass EXCEPT !.i = @ + 1]
    ELSE [pass EXCEPT !.pc = LoopFrom(pass.d, LoopIndex(pass.pc) + 1), !.i = 1]

CurrentPath == ListOf(pass.d, pass.pc)[pass.i]

InLoop(loop) ==
    /\ pass.pc = loop
    /\ pass.i \in 1..Len(ListOf(pass.d, loop))

\* an error return that undoes what the pass did to LocalFiles
ReturnErrorRolledBack ==
    /\ pass' = Standing("stopped")
    /\ LocalFiles' = passStart.local
    /\ UNCHANGED <<RemoteEntries, LastSync, execLog, passStart, lastPush>>

\* an error return that writes LastSync
ReturnErrorStamped ==
    /\ pass' = Standing("stopped")
    /\ LastSync' = IF LastSync = 0 THEN 1 ELSE 0
    /\ UNCHANGED <<LocalFiles, RemoteEntries, execLog, passStart, lastPush>>

\* SyncFiles returns an error: Sync and StartDaemon return it too
ReturnError ==
    /\ pass' = Standing("stopped")
    /\ UNCHANGED <<LocalFiles, RemoteEntries, LastSync, execLog, passStart,
                   lastPush>>

ApplyPushAndWait(push) ==
    /\ pass.pc \in {"snapshot", "wait"}
    /\ RemoteEntries' = UpdateWithPush(RemoteEntries, push)
    /\ lastPush' = [lastPush EXCEPT ![push.EncryptedPath] = push]
    /\ UNCHANGED <<LocalFiles, LastSync, pass, execLog, passStart>>

\* StartDaemon lines 277-280: WaitForPushMessage returns an error, and
\* StartDaemon returns it
StartDaemonWaitErr ==
    /\ pass.pc = "wait"
    /\ ReturnError

\* Sync lines 63-65 and StartDaemon line 284: a push is applied to the map
ApplyPush(push) ==
    /\ pass.pc \in {"snapshot", "wait"}
    /\ RemoteEntries' = UpdateWithPush(RemoteEntries, push)
    /\ lastPush' = [lastPush EXCEPT ![push.EncryptedPath] = push]
    /\ pass' = IF pass.pc = "wait" THEN Standing("ready") ELSE pass
    /\ UNCHANGED <<LocalFiles, LastSync, execLog, passStart>>

\* SyncFiles lines 90-157: the lists are computed
SyncFilesDecide ==
    /\ pass.pc \in {"snapshot", "ready"}
    /\ \E orderR \in Orders(DOMAIN RemoteEntries) :
       \E orderL \in Orders(DOMAIN LocalFiles) :
          LET d == Decide(LocalFiles, RemoteEntries, LastSync, orderR, orderL)
          IN  pass' = [pc |-> LoopFrom(d, 1), i |-> 1, d |-> d]
    /\ execLog' = <<>>
    /\ passStart' = [local |-> LocalFiles, remote |-> RemoteEntries]
    /\ UNCHANGED <<LocalFiles, RemoteEntries, LastSync, lastPush>>

\* lines 160-169: a conflict is reported
SyncFilesConflict ==
    /\ InLoop("conflict")
    /\ IF DecryptPath(CurrentPath).err
       THEN ReturnError
       ELSE /\ pass' = Advance
            /\ execLog' = Append(execLog, [act |-> "conflict", path |-> CurrentPath])
            /\ UNCHANGED <<LocalFiles, RemoteEntries, LastSync, passStart,
                           lastPush>>

\* lines 172-189: a local entry is deleted
SyncFilesDelete ==
    /\ InLoop("delete")
    /\ IF DecryptPath(CurrentPath).err
       THEN ReturnError
       ELSE /\ LocalFiles' = MapDelete(LocalFiles, CurrentPath)
            /\ pass' = Advance
            /\ execLog' = Append(execLog, [act |-> "delete", path |-> CurrentPath])
            /\ UNCHANGED <<RemoteEntries, LastSync, passStart, lastPush>>

\* lines 192-212: a folder is created
SyncFilesNewFolder ==
    /\ InLoop("folder")
    /\ IF DecryptPath(CurrentPath).err
       THEN ReturnError
       ELSE /\ LocalFiles' = MapSet(LocalFiles, CurrentPath,
                    [Path |-> DecryptPath(CurrentPath).val, Created |-> 0,
                     Modified |-> 0, IsFolder |-> TRUE])
            /\ pass' = Advance
            /\ execLog' = Append(execLog, [act |-> "folder", path |-> CurrentPath])
            /\ UNCHANGED <<RemoteEntries, LastSync, passStart, lastPush>>

\* a pull that leaves LocalFiles as it was
SyncFilesPullUnrecorded(pulled) ==
    /\ InLoop("pull")
    /\ IF DecryptPath(CurrentPath).err \/ ~pulled
       THEN ReturnError
       ELSE /\ pass' = Advance
            /\ execLog' = Append(execLog, [act |-> "pull", path |-> CurrentPath])
            /\ UNCHANGED <<LocalFiles, RemoteEntries, LastSync, passStart,
                           lastPush>>

\* lines 215-246: a file is pulled; pulled tells whether ws.PullFile
\* returned content
SyncFilesPull(pulled) ==
    /\ InLoop("pull")
    /\ IF DecryptPath(CurrentPath).err \/ ~pulled
       THEN ReturnError
       ELSE LET pullEntry == Lookup(RemoteEntries, CurrentPath, ZeroRemote)
            IN  /\ LocalFiles' = MapSet(LocalFiles, CurrentPath,
                        [Path |-> DecryptPath(CurrentPath).val,
                         Created |-> pullEntry.Created,
                         Modified |-> pullEntry.Modified,
                         IsFolder |-> pullEntry.IsFolder])
                /\ pass' = Advance
                /\ execLog' = Append(execLog, [act |-> "pull", path |-> CurrentPath])
                /\ UNCHANGED <<RemoteEntries, LastSync, passStart, lastPush>>

\* lines 249-264: a file is pushed; pushed tells whether both os.ReadFile
\* and ws.PushFile succeeded
SyncFilesPush(pushed) ==
    /\ InLoop("push")
    /\ IF ~pushed
       THEN ReturnError
       ELSE /\ pass' = Advance
            /\ execLog' = Append(execLog, [act |-> "push", path |-> CurrentPath])
            /\ UNCHANGED <<LocalFiles, RemoteEntries, LastSync, passStart,
                           lastPush>>

\* lines 266-271: the pass completes at clock reading now, and StartDaemon
\* waits for the next push
SyncFilesStamp(now) ==
    /\ pass.pc = "stamp"
    /\ now >= LastSync
    /\ LastSync' = now
    /\ pass' = Standing("wait")
    /\ execLog' = <<>>
    /\ passStart' = [local |-> EmptyMap, remote |-> EmptyMap]
    /\ UNCHANGED <<LocalFiles, RemoteEntries, lastPush>>

SyncIdle ==
    /\ LocalFiles = EmptyMap
    /\ RemoteEntries = EmptyMap
    /\ LastSync = 0
    /\ pass = Standing("snapshot")
    /\ execLog = <<>>
    /\ passStart = [local |-> EmptyMap, remote |-> EmptyMap]
    /\ lastPush = [q \in Paths |-> NoPush]

(***************************************************************************)
(* sync: State and DoSync of the asynchronous variant.  The maps are keyed *)
(* by the decrypted path.  ReadyToSync is set before the one QueueSync     *)
(* call, so the handler standing in QueueSync tells that it is set.        *)
(***************************************************************************)
\* the zero value of ObsidianEntry
ZeroEntry ==
    [Path |-> "", IsFolder |-> FALSE, Hash |-> "", Uid |-> 0, Created |-> 0,
     Modified |-> 0]

NoDoSync ==
    [pc |-> "idle", pullPaths |-> <<>>, pushPaths |-> <<>>,
     conflictPaths |-> <<>>, keys |-> {}, visited |-> {}, i |-> 1,
     start |-> EmptyMap]

AsyncIdle ==
    /\ syncState = [LocalFiles |-> EmptyMap, RemoteFiles |-> EmptyMap]
    /\ doSync = NoDoSync

\* the handlers Sync registers: push, ready, the catch-all and the binary
\* handler
SyncHandlers == [ops |-> {"push", "ready"}, noOp |-> TRUE, binary |-> TRUE]

DispatchIdle ==
    dispatch = [handlers |-> SyncHandlers, log |-> <<>>, pc |-> "running"]

\* no time has passed and no ping was sent
NoClock ==
    [now |-> 0, due |-> [i \in Waits |-> 0], pings |-> <<>>, pongs |-> 0]

TimeIdle == clock = NoClock

NoCrypto ==
    [input |-> "", password |-> "", salt |-> "", encrypted |-> <<>>,
     decrypted |-> <<>>]

CryptoIdle == crypto = NoCrypto

NoAsyncLog == [pending |-> {}, taken |-> {}, deleted |-> {}]

HistoryIdle == asyncLog = NoAsyncLog

SideIdle == TimeIdle /\ CryptoIdle /\ HistoryIdle

OtherIdle == SendIdle /\ InitIdle /\ AsyncIdle /\ DispatchIdle /\ SideIdle

(***************************************************************************)
(* The router on its own: a caller issuing nextMessageMatching calls with  *)
(* arbitrary predicates, and a transport delivering arbitrary frames.      *)
(***************************************************************************)
RouterKinds == {"op_push", "res_next", "bin"}

RouterMatchers ==
    {JsonValueMatcher("res", "next"), BinaryMatcher,
     JsonOpMatcher({"push", "pong"}), AnyMatcher({"res_next", "bin"})}

RouterIdle ==
    /\ filteredQueue = <<>>
    /\ nread = 0
    /\ nmm = Idle
    /\ got = NoResult
    /\ readLog = <<>>
    /\ returned = <<>>

RouterInit ==
    /\ RouterIdle /\ SyncIdle /\ XferIdle /\ PushIdle /\ OtherIdle
    /\ variant = "sync"

RouterCall ==
    /\ \E m \in RouterMatchers : EnterAwait(m)
    /\ UNCHANGED <<filteredQueue, nread, readLog, returned, syncVars, xferVars>>

RouterScan == NextMessageMatchingScan /\ UNCHANGED <<syncVars, xferVars>>

RouterRead ==
    /\ nread < MaxFrames
    /\ \E k \in RouterKinds :
          NextMessageMatchingRead(Frame(nread + 1, k))
    /\ UNCHANGED <<syncVars, xferVars>>

RouterReadErr == NextMessageMatchingReadErr /\ UNCHANGED <<syncVars, xferVars>>

RouterNext ==
    \/ RouterCall
    \/ RouterScan
    \/ RouterRead
    \/ RouterReadErr

RouterSpec == RouterInit /\ [][RouterNext]_vars

(***************************************************************************)
(* The reconciliation engine on its own: Sync applies the pushes of the    *)
(* initial snapshot and runs a pass, then StartDaemon applies one push and *)
(* runs a pass, again and again.  The server chooses the pushes, and what  *)
(* becomes of each PullFile and PushFile exchange.                         *)
(***************************************************************************)
PushOf(path, uid, hash, ctime, mtime, folder, deleted) ==
    [EncryptedPath |-> path, EncryptedHash |-> hash, Ctime |-> ctime,
     Mtime |-> mtime, Folder |-> folder, Deleted |-> deleted, Uid |-> uid]

\* every timestamp and kind for e1; versions and hashes for e2; one file
\* under the path that does not decrypt
SyncPushes ==
    {PushOf("e1", 1, "h1", c, m, f, FALSE) :
        c \in Times, m \in Times, f \in BOOLEAN}
    \cup {PushOf("e2", u, h, 1, 1, FALSE, FALSE) :
        u \in 1..MaxUid, h \in {"h1", "h2"}}
    \cup {PushOf("e1", 1, "h1", 1, 1, FALSE, TRUE),
          PushOf("e2", 1, "h1", 1, 1, FALSE, TRUE),
          PushOf("ebad", 1, "h1", 1, 1, FALSE, FALSE)}

SyncInit ==
    /\ RouterIdle /\ SyncIdle /\ XferIdle /\ PushIdle /\ OtherIdle
    /\ variant = "sync"

SyncApplyPush ==
    /\ \E push \in SyncPushes : ApplyPush(push)
    /\ UNCHANGED <<routerVars, xferVars>>

SyncWaitErr == StartDaemonWaitErr /\ UNCHANGED <<routerVars, xferVars>>

SyncDecide == SyncFilesDecide /\ UNCHANGED <<routerVars, xferVars>>

SyncConflict == SyncFilesConflict /\ UNCHANGED <<routerVars, xferVars>>

SyncDelete == SyncFilesDelete /\ UNCHANGED <<routerVars, xferVars>>

SyncNewFolder == SyncFilesNewFolder /\ UNCHANGED <<routerVars, xferVars>>

SyncPull ==
    /\ \E pulled \in BOOLEAN : SyncFilesPull(pulled)
    /\ UNCHANGED <<routerVars, xferVars>>

SyncPush ==
    /\ \E pushed \in BOOLEAN : SyncFilesPush(pushed)
    /\ UNCHANGED <<routerVars, xferVars>>

SyncStamp ==
    /\ \E now \in 1..MaxTime : SyncFilesStamp(now)
    /\ UNCHANGED <<routerVars, xferVars>>

SyncNext ==
    \/ SyncApplyPush
    \/ SyncWaitErr
    \/ SyncDecide
    \/ SyncConflict
    \/ SyncDelete
    \/ SyncNewFolder
    \/ SyncPull
    \/ SyncPush
    \/ SyncStamp

SyncSpec == SyncInit /\ [][SyncNext]_vars

(***************************************************************************)
(* A pass whose pulls are the exchanges of PullFile: the server chooses    *)
(* the pushes and every frame the transport delivers.                      *)
(***************************************************************************)
HeaderFrame(id, size, pieces) ==
    [Frame(id, "header") EXCEPT !.size = size, !.pieces = pieces]

BinaryFrame(id, bytes) == [Frame(id, "bin") EXCEPT !.bytes = bytes]

PullPayloads ==
    {Encrypt("c1", VaultKey, "n1"), [i \in 1..(NonceSize + 1) |-> JunkByte],
     <<JunkByte>>, <<>>}

PullFrames(id) ==
    {HeaderFrame(id, 0, 0), HeaderFrame(id, 1, 1), HeaderFrame(id, NonceSize + 1, 0),
     HeaderFrame(id, NonceSize + 1, 1), HeaderFrame(id, NonceSize + 1, 2)}
    \cup {BinaryFrame(id, bytes) : bytes \in PullPayloads}
    \cup {Frame(id, "header_bad"), Frame(id, "op_pong")}

PullPushes ==
    {PushOf("e1", 1, h, 1, 1, FALSE, FALSE) :
        h \in {"h0", "h1", "h2", "hraw1", "hbad"}}
    \cup {PushOf("e1", 1, "h1", 1, 2, FALSE, FALSE),
          PushOf("e2", 1, "h1", 1, 1, FALSE, FALSE),
          PushOf("ebad", 1, "h1", 1, 1, FALSE, FALSE)}

PullInit ==
    /\ RouterIdle /\ SyncIdle /\ XferIdle /\ PushIdle /\ OtherIdle
    /\ variant = "sync"

PullApplyPush ==
    /\ \E push \in PullPushes : ApplyPush(push)
    /\ UNCHANGED <<routerVars, xferVars>>

\* SyncFiles lines 215-223: the path is decrypted and PullFile called
PullStart ==
    /\ InLoop("pull")
    /\ pull.pc = "idle"
    /\ IF DecryptPath(CurrentPath).err
       THEN /\ SyncFilesPull(FALSE)
            /\ UNCHANGED <<routerVars, xferVars>>
       ELSE /\ \E sendOk \in BOOLEAN :
                  PullFileCall(Lookup(RemoteEntries, CurrentPath,
                                      ZeroRemote).EncryptedHash, sendOk)
            /\ UNCHANGED <<syncVars, pushVars, otherVars>>

PullScan ==
    /\ pull.pc \in {"header", "pieces"}
    /\ NextMessageMatchingScan
    /\ UNCHANGED <<syncVars, xferVars>>

PullRead ==
    /\ pull.pc \in {"header", "pieces"}
    /\ nread < MaxFrames
    /\ \E f \in PullFrames(nread + 1) : NextMessageMatchingRead(f)
    /\ UNCHANGED <<syncVars, xferVars>>

PullReadErr ==
    /\ pull.pc \in {"header", "pieces"}
    /\ NextMessageMatchingReadErr
    /\ UNCHANGED <<syncVars, xferVars>>

PullHeader == PullFileHeader /\ UNCHANGED <<syncVars, pushVars, otherVars>>

PullPiece == PullFilePiece /\ UNCHANGED <<syncVars, pushVars, otherVars>>

PullCheckSize == PullFileCheckSize /\ UNCHANGED <<syncVars, pushVars, otherVars>>

PullDecrypt == PullFileDecrypt /\ UNCHANGED <<syncVars, pushVars, otherVars>>

PullCheckHash == PullFileCheckHash /\ UNCHANGED <<syncVars, pushVars, otherVars>>

\* SyncFiles lines 224-245: PullFile has returned
PullReturn ==
    /\ pull.pc = "returned"
    /\ SyncFilesPull(pull.result = "content")
    /\ pull' = NoPull
    /\ UNCHANGED <<routerVars, sent, pushVars, otherVars>>

PullNext ==
    \/ PullApplyPush
    \/ SyncDecide
    \/ SyncConflict
    \/ PullStart
    \/ PullScan
    \/ PullRead
    \/ PullReadErr
    \/ PullHeader
    \/ PullPiece
    \/ PullCheckSize
    \/ PullDecrypt
    \/ PullCheckHash
    \/ PullReturn
    \/ SyncStamp

PullSpec == PullInit /\ [][PullNext]_vars

(***************************************************************************)
(* The push exchange on its own, in either variant: a caller pushing files *)
(* one after another until a push fails, and a server choosing every frame *)
(* the transport delivers.                                                 *)
(***************************************************************************)
PushKinds ==
    {"res_next", "res_ok", "op_push", "op_push_other", "op_push_bad", "op_ok",
     "op_pong", "bin"}

PushInit ==
    /\ RouterIdle /\ SyncIdle /\ XferIdle /\ PushIdle /\ OtherIdle
    /\ variant \in {"sync", "async"}

PushCall ==
    /\ variant = "sync"
    /\ \E encryptOk \in BOOLEAN, sendOk \in BOOLEAN :
          PushFileCall(encryptOk, sendOk)
    /\ UNCHANGED <<syncVars, pull, unhandledMessages, variant, otherVars>>

PushScan ==
    /\ variant = "sync"
    /\ NextMessageMatchingScan
    /\ UNCHANGED <<syncVars, xferVars>>

PushRead ==
    /\ variant = "sync"
    /\ nread < MaxFrames
    /\ \E k \in PushKinds : NextMessageMatchingRead(Frame(nread + 1, k))
    /\ UNCHANGED <<syncVars, xferVars>>

PushReadErr ==
    /\ variant = "sync"
    /\ NextMessageMatchingReadErr
    /\ UNCHANGED <<syncVars, xferVars>>

PushNext ==
    /\ variant = "sync"
    /\ \E sendOk \in BOOLEAN : PushFileNext(sendOk)
    /\ UNCHANGED <<syncVars, pull, unhandledMessages, variant, otherVars>>

PushEcho ==
    /\ variant = "sync"
    /\ PushFileEcho
    /\ UNCHANGED <<syncVars, pull, unhandledMessages, variant, otherVars>>

PushOk ==
    /\ variant = "sync"
    /\ PushFileOk
    /\ UNCHANGED <<syncVars, pull, unhandledMessages, variant, otherVars>>

AsyncListen ==
    /\ variant = "async"
    /\ nread < MaxFrames
    /\ \E k \in PushKinds : ListenForMessages(Frame(nread + 1, k))
    /\ UNCHANGED <<syncVars, pull, variant, otherVars>>

AsyncListenErr ==
    /\ variant = "async"
    /\ ListenForMessagesErr
    /\ UNCHANGED <<syncVars, pull, variant, otherVars>>

AsyncHandle ==
    /\ variant = "async"
    /\ \E handlerErr \in BOOLEAN : HandleMessages(handlerErr)
    /\ UNCHANGED <<syncVars, pull, variant, otherVars>>

AsyncPushCall ==
    /\ variant = "async"
    /\ \E encryptOk \in BOOLEAN, sendOk \in BOOLEAN :
          AsyncPushFileCall(encryptOk, sendOk)
    /\ UNCHANGED <<syncVars, pull, variant, otherVars>>

AsyncPushNext ==
    /\ variant = "async"
    /\ \E sendOk \in BOOLEAN : AsyncPushFileNext(sendOk)
    /\ UNCHANGED <<syncVars, pull, variant, otherVars>>

AsyncPushEcho ==
    /\ variant = "async"
    /\ AsyncPushFileEcho
    /\ UNCHANGED <<syncVars, pull, variant, otherVars>>

AsyncPushOk ==
    /\ variant = "async"
    /\ AsyncPushFileOk
    /\ UNCHANGED <<syncVars, pull, variant, otherVars>>

PushSpecNext ==
    \/ PushCall
    \/ PushScan
    \/ PushRead
    \/ PushReadErr
    \/ PushNext
    \/ PushEcho
    \/ PushOk
    \/ AsyncListen
    \/ AsyncListenErr
    \/ AsyncHandle
    \/ AsyncPushCall
    \/ AsyncPushNext
    \/ AsyncPushEcho
    \/ AsyncPushOk

PushSpec == PushInit /\ [][PushSpecNext]_vars

(***************************************************************************)
(* The senders of a session, in either variant.  Synchronous: main sends   *)
(* init and size and the requests of its passes, and each                  *)
(* WaitForPushMessage call starts a reader and a pinger.  Asynchronous:    *)
(* main sends init, handleMessages the size request of onReady, the syncer *)
(* the requests of DoSync, and keepAlive the pings.                        *)
(***************************************************************************)
SendersInit ==
    /\ RouterIdle /\ SyncIdle /\ XferIdle /\ PushIdle /\ InitIdle
    /\ AsyncIdle /\ DispatchIdle /\ SideIdle
    /\ variant \in {"sync", "async"}
    /\ writing = {}
    /\ gpc = [g \in Goroutines |->
                 CASE g = "main" -> "init"
                   [] variant = "sync" -> "none"
                   [] g = "handler" -> "listen"
                   [] g = "syncer" -> "idle"
                   [] OTHER -> "sleep"]
    /\ waits = 0
    /\ reader = [i \in Waits |-> NoGoroutine]
    /\ pinger = [i \in Waits |-> NoGoroutine]
    /\ unansweredPingCount = [i \in Waits |-> 0]

SendMainBegin ==
    /\ \E kind \in {"init", "size"} \cup ExchangeSends : MainSendBegin(kind)
    /\ UNCHANGED <<quietVars, nread>>

SendMainEnd ==
    /\ \E ok \in BOOLEAN : MainSendEnd(ok)
    /\ UNCHANGED <<quietVars, nread>>

SendMainAwaitEnd ==
    /\ \E ok \in BOOLEAN : MainAwaitEnd(ok)
    /\ UNCHANGED <<quietVars, nread>>

SendWait == WaitForPushMessage /\ UNCHANGED <<quietVars, nread>>

SendReaderPush == (\E i \in Waits : ReaderPush(i)) /\ UNCHANGED quietVars

SendReaderPong == (\E i \in Waits : ReaderPong(i)) /\ UNCHANGED quietVars

SendReaderStore == (\E i \in Waits : ReaderStore(i)) /\ UNCHANGED quietVars

SendReaderErr == (\E i \in Waits : ReaderErr(i)) /\ UNCHANGED quietVars

SendPingerTick ==
    /\ \E i \in Waits : PingerTick(i)
    /\ UNCHANGED <<quietVars, nread>>

SendPingerSent ==
    /\ \E i \in Waits, ok \in BOOLEAN : PingerSent(i, ok)
    /\ UNCHANGED <<quietVars, nread>>

SendPingerStore ==
    /\ \E i \in Waits : PingerStore(i)
    /\ UNCHANGED <<quietVars, nread>>

SendPingerDone ==
    /\ \E i \in Waits : PingerDone(i)
    /\ UNCHANGED <<quietVars, nread>>

SendKeepAliveTick == KeepAliveTick /\ UNCHANGED <<quietVars, nread>>

SendKeepAliveSent ==
    /\ \E ok \in BOOLEAN : KeepAliveSent(ok)
    /\ UNCHANGED <<quietVars, nread>>

SendOnReadyBegin == OnReadyBegin /\ UNCHANGED quietVars

SendOnReadySent ==
    /\ \E ok \in BOOLEAN : OnReadySent(ok)
    /\ UNCHANGED <<quietVars, nread>>

SendDoSyncBegin == DoSyncBegin /\ UNCHANGED <<quietVars, nread>>

SendDoSyncSendBegin ==
    /\ \E kind \in ExchangeSends : DoSyncSendBegin(kind)
    /\ UNCHANGED <<quietVars, nread>>

SendDoSyncSendEnd ==
    /\ \E ok \in BOOLEAN : DoSyncSendEnd(ok)
    /\ UNCHANGED <<quietVars, nread>>

SendDoSyncEnd == DoSyncEnd /\ UNCHANGED <<quietVars, nread>>

SendNext ==
    \/ SendMainBegin
    \/ SendMainEnd
    \/ SendMainAwaitEnd
    \/ SendWait
    \/ SendReaderPush
    \/ SendReaderPong
    \/ SendReaderStore
    \/ SendReaderErr
    \/ SendPingerTick
    \/ SendPingerSent
    \/ SendPingerStore
    \/ SendPingerDone
    \/ SendKeepAliveTick
    \/ SendKeepAliveSent
    \/ SendOnReadyBegin
    \/ SendOnReadySent
    \/ SendDoSyncBegin
    \/ SendDoSyncSendBegin
    \/ SendDoSyncSendEnd
    \/ SendDoSyncEnd

SendSpec == SendersInit /\ [][SendNext]_vars

(***************************************************************************)
(* The pings of a daemon, with time.  The clock counts seconds and moves   *)
(* in steps as wide as the jitter of a delay; the pinger of a call draws   *)
(* its delay on entering its select, and time.After fires no sooner than   *)
(* that delay.  A ping is sent when its write returns without error.       *)
(***************************************************************************)
\* part_000 line 401: secs := rand.Intn(10) + 20
PingBaseSecs == 20

PingJitterSecs == 10

ClockStep == PingJitterSecs

\* the delays rand.Intn can give, on the grid of the clock
PingerSecs ==
    {secs \in PingBaseSecs..(PingBaseSecs + PingJitterSecs - 1) :
        secs % ClockStep = 0}

\* line 402: the timer of the pinger of call i is armed
ArmTimer(i, secs) == [clock EXCEPT !.due[i] = clock.now + secs]

\* what the timed pings leave alone
pingQuietVars ==
    <<filteredQueue, nmm, got, readLog, returned, syncVars, pull, pushing,
      unhandledMessages, variant, initVars, asyncVars, dispatchVars,
      cryptoVars, historyVars>>

\* the daemon after its first pass: main is between SyncFiles and
\* WaitForPushMessage
PingInit ==
    /\ RouterIdle /\ SyncIdle /\ XferIdle /\ PushIdle /\ InitIdle
    /\ AsyncIdle /\ DispatchIdle /\ SideIdle
    /\ variant = "sync"
    /\ writing = {}
    /\ gpc = [g \in Goroutines |-> IF g = "main" THEN "sync" ELSE "none"]
    /\ waits = 0
    /\ reader = [i \in Waits |-> NoGoroutine]
    /\ pinger = [i \in Waits |-> NoGoroutine]
    /\ unansweredPingCount = [i \in Waits |-> 0]

\* lines 385 and 412: the pinger of call i is in its select and the reader
\* is sending on doneChan, so the select has a ready case
DoneReady(i) == pinger[i].pc = "select" /\ reader[i].pc = "signal"

\* time passes; a select with a ready case does not wait
PingTimePasses ==
    /\ clock.now < MaxTicks * ClockStep
    /\ \A i \in Waits : ~DoneReady(i)
    /\ clock' = [clock EXCEPT !.now = @ + ClockStep]
    /\ UNCHANGED <<pingQuietVars, sendVars, sent, nread>>

\* WaitForPushMessage starts its goroutines and the pinger arms its timer
PingWait ==
    /\ WaitForPushMessage
    /\ \E secs \in PingerSecs : clock' = ArmTimer(waits + 1, secs)
    /\ UNCHANGED <<pingQuietVars, nread>>

PingReaderPush ==
    /\ \E i \in Waits : ReaderPush(i)
    /\ UNCHANGED <<pingQuietVars, clock>>

\* the server answers a ping with one pong
PingReaderPong ==
    /\ clock.pongs < Len(clock.pings)
    /\ \E i \in Waits : ReaderPong(i)
    /\ clock' = [clock EXCEPT !.pongs = @ + 1]
    /\ UNCHANGED pingQuietVars

PingReaderStore ==
    /\ \E i \in Waits : ReaderStore(i)
    /\ UNCHANGED <<pingQuietVars, clock>>

PingReaderErr ==
    /\ \E i \in Waits : ReaderErr(i)
    /\ UNCHANGED <<pingQuietVars, clock>>

\* line 402: time.After(secs) has fired
PingPingerTick ==
    /\ \E i \in Waits : clock.now >= clock.due[i] /\ PingerTick(i)
    /\ UNCHANGED <<pingQuietVars, clock, nread>>

\* line 404: the ping is on the transport, or the write failed
PingPingerSent ==
    /\ \E i \in Waits, ok \in BOOLEAN :
          /\ PingerSent(i, ok)
          /\ clock' = IF ok THEN [clock EXCEPT !.pings = Append(@, clock.now)]
                       ELSE clock
    /\ UNCHANGED <<pingQuietVars, nread>>

\* lines 411 and 400-402: the counter is stored and the next iteration
\* arms a new timer
PingPingerStore ==
    /\ \E i \in Waits, secs \in PingerSecs :
          PingerStore(i) /\ clock' = ArmTimer(i, secs)
    /\ UNCHANGED <<pingQuietVars, nread>>

PingPingerDone ==
    /\ \E i \in Waits : PingerDone(i)
    /\ UNCHANGED <<pingQuietVars, clock, nread>>

\* lines 402-410 once WaitForPushMessage has returned the error of a failed
\* transport: the timer fires, the ping cannot be written, and nobody
\* receives from errorChan any more
PingerOrphaned(i) ==
    /\ ~Running
    /\ pinger[i].pc = "select"
    /\ clock.now >= clock.due[i]
    /\ pinger' = [pinger EXCEPT ![i].pc = "blocked"]
    /\ UNCHANGED <<writing, sent, gpc, waits, reader, unansweredPingCount>>

PingPingerOrphaned ==
    /\ \E i \in Waits : PingerOrphaned(i)
    /\ UNCHANGED <<pingQuietVars, clock, nread>>

PingNext ==
    \/ PingTimePasses
    \/ PingWait
    \/ PingReaderPush
    \/ PingReaderPong
    \/ PingReaderStore
    \/ PingReaderErr
    \/ PingPingerTick
    \/ PingPingerSent
    \/ PingPingerStore
    \/ PingPingerDone
    \/ PingPingerOrphaned

PingSpec == PingInit /\ [][PingNext]_vars

\* the scheduler runs a goroutine that can run, timers fire and time passes
FairPingSpec == PingSpec /\ WF_vars(PingNext)

(***************************************************************************)
(* The handshake on its own: SendInit on a fresh connection, and a server  *)
(* choosing every frame the transport delivers.                            *)
(***************************************************************************)
ReadyFrame(id, version) == [Frame(id, "op_ready") EXCEPT !.version = version]

InitFrames(id) ==
    {Frame(id, k) : k \in {"res_ok", "res_next", "op_push", "op_push_bad",
                           "op_ready_bad", "op_pong"}}
    \cup {ReadyFrame(id, version) : version \in 1..MaxUid}

InitInit ==
    /\ RouterIdle /\ SyncIdle /\ XferIdle /\ PushIdle /\ OtherIdle
    /\ variant = "sync"

InitCall ==
    /\ \E sendOk \in BOOLEAN : SendInitCall(sendOk)
    /\ UNCHANGED <<syncVars, pull, pushVars, sendVars, asyncVars,
                   dispatchVars, sideVars>>

InitScan ==
    /\ handshake.pc \in {"ack", "loop"}
    /\ NextMessageMatchingScan
    /\ UNCHANGED <<syncVars, xferVars>>

InitRead ==
    /\ handshake.pc \in {"ack", "loop"}
    /\ nread < MaxInitFrames
    /\ \E f \in InitFrames(nread + 1) : NextMessageMatchingRead(f)
    /\ UNCHANGED <<syncVars, xferVars>>

InitReadErr ==
    /\ handshake.pc \in {"ack", "loop"}
    /\ NextMessageMatchingReadErr
    /\ UNCHANGED <<syncVars, xferVars>>

InitAck ==
    /\ SendInitAck
    /\ UNCHANGED <<syncVars, pull, pushVars, sendVars, asyncVars,
                   dispatchVars, sideVars>>

InitLoop ==
    /\ SendInitLoop
    /\ UNCHANGED <<syncVars, pull, pushVars, sendVars, asyncVars,
                   dispatchVars, sideVars>>

InitNext ==
    \/ InitCall
    \/ InitScan
    \/ InitRead
    \/ InitReadErr
    \/ InitAck
    \/ InitLoop

InitSpec == InitInit /\ [][InitNext]_vars

(***************************************************************************)
(* api: handleMessages and handleMessage of the asynchronous variant, for  *)
(* any set of registered handlers.  dispatch.log tells, for every frame    *)
(* the loop took from the channel, where handleMessage routed it.          *)
(***************************************************************************)
\* data["op"] holds a string
OpIsString(f) == f.kind # "op_num"

\* part_001 lines 172-210: where handleMessage routes the frame; "panic"
\* is the failed type assertion op.(string)
HandleMessage(handlers, f) ==
    IF IsJson(f)
    THEN IF "op" \in KeysOf(f)
         THEN CASE ~OpIsString(f) -> "panic"
                [] FieldOf(f, "op") = "pong" -> "ignored"
                [] FieldOf(f, "op") \in handlers.ops -> "op"
                [] OTHER -> "err"
         ELSE IF handlers.noOp THEN "noOp" ELSE "err"
    ELSE IF handlers.binary THEN "binary" ELSE "err"

\* part_001 lines 158-169: the loop takes the next frame, routes it, and
\* returns at the first error, of the routing or of the handler
HandleMessagesLoop(handlerErr) ==
    /\ dispatch.pc = "running"
    /\ unhandledMessages # <<>>
    /\ unhandledMessages' = Tail(unhandledMessages)
    /\ LET message == Head(unhandledMessages)
           route == HandleMessage(dispatch.handlers, message)
           failed == route \in {"op", "noOp", "binary"} /\ handlerErr
       IN  dispatch' = [dispatch EXCEPT
              !.log = Append(@, [frame |-> message, route |-> route,
                                 failed |-> failed]),
              !.pc = CASE route = "panic" -> "panicked"
                       [] route = "err" \/ failed -> "returned"
                       [] OTHER -> "running"]
    /\ UNCHANGED <<routerVars, pull, sent, pushing>>

(***************************************************************************)
(* The dispatch loop on its own: a caller that has registered any of the   *)
(* handlers, and a transport delivering arbitrary frames.                  *)
(***************************************************************************)
DispatchKinds ==
    {"op_pong", "op_push", "op_ready", "op_ok", "op_num", "res_ok", "bin"}

Registries ==
    {[ops |-> ops, noOp |-> noOp, binary |-> binary] :
        ops \in SUBSET {"push", "ready"}, noOp \in BOOLEAN, binary \in BOOLEAN}

(***************************************************************************)
(* crypto on its own: Encrypt is called on a payload with a password and a *)
(* salt, each call with the nonce rand.Reader gives it, and Decrypt on     *)
(* what Encrypt returned, with any password and salt.                      *)
(***************************************************************************)
Payloads == {"", "c1", "c2"}

Passwords == {"pw1", "pw2"}

Salts == {"s1", "s2"}

Nonces == {"n1", "n2"}

CryptoInit ==
    /\ RouterIdle /\ SyncIdle /\ XferIdle /\ PushIdle
    /\ SendIdle /\ InitIdle /\ AsyncIdle /\ DispatchIdle /\ TimeIdle
    /\ HistoryIdle
    /\ variant = "sync"
    /\ crypto \in {[NoCrypto EXCEPT !.input = p, !.password = pw, !.salt = sa] :
                      p \in Payloads, pw \in Passwords, sa \in Salts}

\* part_003 lines 66-95: Encrypt(input, password, salt)
EncryptCall ==
    /\ Len(crypto.encrypted) < MaxEncrypts
    /\ \E nonce \in Nonces :
          crypto' = [crypto EXCEPT !.encrypted =
                        Append(@, Encrypt(crypto.input,
                                          DeriveKey(crypto.password,
                                                    crypto.salt),
                                          nonce))]
    /\ UNCHANGED <<routerVars, syncVars, pullVars, pushVars, sendVars,
                   initVars, asyncVars, dispatchVars, timeVars,
                   historyVars>>

\* part_003 lines 110-141: Decrypt(encrypted, password, salt) on the next
\* ciphertext
DecryptCall ==
    /\ Len(crypto.decrypted) < Len(crypto.encrypted)
    /\ \E password \in Passwords, salt \in Salts :
          crypto' = [crypto EXCEPT !.decrypted =
                        Append(@, [password |-> password, salt |-> salt,
                                   out |-> Decrypt(
                                       crypto.encrypted[Len(crypto.decrypted) + 1],
                                       DeriveKey(password, salt))])]
    /\ UNCHANGED <<routerVars, syncVars, pullVars, pushVars, sendVars,
                   initVars, asyncVars, dispatchVars, timeVars,
                   historyVars>>

CryptoNext ==
    \/ EncryptCall
    \/ DecryptCall

CryptoSpec == CryptoInit /\ [][CryptoNext]_vars

DispatchInit ==
    /\ RouterIdle /\ SyncIdle /\ XferIdle /\ PushIdle
    /\ SendIdle /\ InitIdle /\ AsyncIdle /\ SideIdle
    /\ variant = "async"
    /\ dispatch \in {[handlers |-> h, log |-> <<>>, pc |-> "running"] :
                        h \in Registries}

DispatchListen ==
    /\ dispatch.pc = "running"
    /\ nread < MaxFrames
    /\ \E k \in DispatchKinds : ListenForMessages(Frame(nread + 1, k))
    /\ UNCHANGED <<syncVars, pull, variant, otherVars>>

DispatchHandle ==
    /\ \E handlerErr \in BOOLEAN : HandleMessagesLoop(handlerErr)
    /\ UNCHANGED <<syncVars, variant, sendVars, initVars, asyncVars,
                   sideVars>>

DispatchNext ==
    \/ DispatchListen
    \/ DispatchHandle

DispatchSpec == DispatchInit /\ [][DispatchNext]_vars

(***************************************************************************)
(* The asynchronous variant: listenForMessages puts every frame on the     *)
(* channel, handleMessages dispatches them to onPush and onReady, and the  *)
(* syncer goroutine runs DoSync, whose PullFile and PushFile take their    *)
(* answers from the same channel.  No lock guards the maps of State: a     *)
(* write of onPush that meets a range of DoSync over the same map either   *)
(* lands or ends the process with the runtime's fatal error.               *)
(***************************************************************************)
\* a push frame with the fields of its IncomingPushMessage
IncomingPush(id, push) == [push |-> push] @@ Frame(id, "op_push")

\* the bytes of a frame as getNextUnhandledMessage returns them: the text
\* of a JSON frame is bytes no key opens
RawBytes(f) == IF IsJson(f) THEN <<JunkByte, JunkByte>> ELSE f.bytes

\* part_004 lines 390-425: onPush, the error or the remote map after it
OnPush(remoteFiles, msg) ==
    LET decryptedPath == DecryptString(msg.push.EncryptedPath, VaultKey)
        decryptedHash == DecryptString(msg.push.EncryptedHash, VaultKey)
    IN  CASE ~IsIncomingPush(msg) -> [res |-> "err", files |-> remoteFiles]
          [] decryptedPath.res # "ok" ->
                [res |-> decryptedPath.res, files |-> remoteFiles]
          [] decryptedHash.res # "ok" ->
                [res |-> decryptedHash.res, files |-> remoteFiles]
          [] OTHER ->
                [res |-> "ok",
                 files |-> MapSet(remoteFiles, decryptedPath.val,
                               [Path |-> decryptedPath.val,
                                Uid |-> msg.push.Uid,
                                IsFolder |-> msg.push.Folder,
                                Hash |-> decryptedHash.val,
                                Created |-> 0,
                                Modified |-> 0])]

\* log.Fatalf, a panic or a fatal error of the runtime ends the process
Stopped == [gpc EXCEPT !["main"] = "stopped"]

\* DoSync is in one of its two ranges over the maps
Ranging == doSync.pc \in {"remote", "local"}

\* part_001 lines 158-189 and part_004 lines 390-425: handleMessages takes
\* a push frame and runs onPush
HandleMessagesPush(fatal) ==
    /\ Running
    /\ gpc["handler"] = "listen"
    /\ unhandledMessages # <<>>
    /\ LET msg == Head(unhandledMessages)
           pushed == OnPush(syncState.RemoteFiles, msg)
       IN  /\ FieldOf(msg, "op") = "push"
           /\ fatal => Ranging /\ pushed.res = "ok"
           /\ unhandledMessages' = Tail(unhandledMessages)
           /\ IF fatal \/ pushed.res # "ok"
              THEN /\ gpc' = Stopped
                   /\ UNCHANGED syncState
              ELSE /\ syncState' = [syncState EXCEPT !.RemoteFiles = pushed.files]
                   /\ UNCHANGED gpc
    /\ UNCHANGED <<routerVars, pull, sent, pushing, doSync>>

\* part_004 lines 427-444 and part_001 lines 304-312: handleMessages takes
\* a ready frame and onReady sends the size request
HandleMessagesReady(sendOk) ==
    /\ Running
    /\ gpc["handler"] = "listen"
    /\ unhandledMessages # <<>>
    /\ LET msg == Head(unhandledMessages)
       IN  /\ FieldOf(msg, "op") = "ready"
           /\ unhandledMessages' = Tail(unhandledMessages)
           /\ IF msg.kind = "op_ready_bad" \/ ~sendOk
              THEN /\ gpc' = Stopped
                   /\ UNCHANGED sent
              ELSE /\ gpc' = [gpc EXCEPT !["handler"] = "size"]
                   /\ sent' = Append(sent, "size")
    /\ UNCHANGED <<routerVars, pull, pushing, asyncVars>>

\* part_001 lines 314-331 and part_004 lines 446-449: the next frame of
\* the channel is taken for the size response, and onReady goes on to
\* QueueSync
SendAndHandleSizeOp ==
    /\ Running
    /\ gpc["handler"] = "size"
    /\ unhandledMessages # <<>>
    /\ unhandledMessages' = Tail(unhandledMessages)
    /\ gpc' = IF IsJson(Head(unhandledMessages))
              THEN [gpc EXCEPT !["handler"] = "signal"]
              ELSE Stopped
    /\ UNCHANGED <<routerVars, pull, sent, pushing, asyncVars>>

\* part_001 lines 172-210: handleMessages takes a frame that is no push
\* and no ready
HandleMessagesOther ==
    /\ Running
    /\ gpc["handler"] = "listen"
    /\ unhandledMessages # <<>>
    /\ LET msg == Head(unhandledMessages)
       IN  /\ FieldOf(msg, "op") \notin {"push", "ready"}
           /\ unhandledMessages' = Tail(unhandledMessages)
           /\ gpc' = IF HandleMessageFails(msg, FALSE) THEN Stopped ELSE gpc
    /\ UNCHANGED <<routerVars, pull, sent, pushing, asyncVars>>

\* part_004 lines 368-381, 453-457 and 460-463: QueueSync hands the signal
\* to the syncer, which calls DoSync
DoSyncCall ==
    /\ Running
    /\ gpc["handler"] = "signal"
    /\ gpc["syncer"] = "idle"
    /\ gpc' = [gpc EXCEPT !["handler"] = "listen", !["syncer"] = "sync"]
    /\ doSync' = [NoDoSync EXCEPT !.pc = "remote",
                                  !.keys = DOMAIN syncState.RemoteFiles,
                                  !.start = syncState.RemoteFiles]
    /\ UNCHANGED <<routerVars, pull, sent, pushVars, syncState>>

DoSyncRemoteBodyAnyVersion(d, path, localFile, inLocal, remoteFile) ==
    [d EXCEPT
        !.pullPaths =
            IF ~inLocal \/ (localFile.Uid < remoteFile.Uid
                            /\ localFile.Modified < remoteFile.Modified)
            THEN Append(@, path) ELSE @,
        !.conflictPaths =
            IF inLocal /\ localFile.Modified > remoteFile.Modified
            THEN Append(@, path) ELSE @]

\* part_004 lines 466-476: the body of the range over RemoteFiles
DoSyncRemoteBody(d, path, localFile, inLocal, remoteFile) ==
    [d EXCEPT
        !.pullPaths =
            IF ~inLocal \/ (localFile.Uid < remoteFile.Uid
                            /\ localFile.Modified < remoteFile.Modified)
            THEN Append(@, path) ELSE @,
        !.conflictPaths =
            IF inLocal /\ localFile.Uid < remoteFile.Uid
                       /\ localFile.Modified > remoteFile.Modified
            THEN Append(@, path) ELSE @]

\* part_004 lines 480-484: the body of the range over LocalFiles
DoSyncLocalBody(d, path, localFile, remoteFile, inRemote) ==
    [d EXCEPT
        !.pushPaths =
            IF ~inRemote \/ (localFile.Uid > remoteFile.Uid
                             /\ localFile.Modified > remoteFile.Modified)
            THEN Append(@, path) ELSE @]

\* part_004 lines 465-477: the range over RemoteFiles produces a key it has
\* not produced yet, or ends once it has produced every key the map held
\* when it began
DoSyncRemoteLoop ==
    /\ Running
    /\ doSync.pc = "remote"
    /\ \/ \E path \in DOMAIN syncState.RemoteFiles \ doSync.visited :
            doSync' = [DoSyncRemoteBody(doSync, path,
                           Lookup(syncState.LocalFiles, path, ZeroEntry),
                           path \in DOMAIN syncState.LocalFiles,
                           syncState.RemoteFiles[path])
                       EXCEPT !.visited = @ \cup {path}]
       \/ /\ doSync.keys \subseteq doSync.visited
          /\ doSync' = [doSync EXCEPT !.pc = "local",
                                      !.keys = DOMAIN syncState.LocalFiles,
                                      !.visited = {}]
    /\ UNCHANGED <<routerVars, pullVars, pushing, unhandledMessages, gpc,
                   syncState>>

\* part_004 lines 479-489: the range over LocalFiles, then the summary
DoSyncLocalLoop ==
    /\ Running
    /\ doSync.pc = "local"
    /\ \/ \E path \in DOMAIN syncState.LocalFiles \ doSync.visited :
            doSync' = [DoSyncLocalBody(doSync, path,
                           syncState.LocalFiles[path],
                           Lookup(syncState.RemoteFiles, path, ZeroEntry),
                           path \in DOMAIN syncState.RemoteFiles)
                       EXCEPT !.visited = @ \cup {path}]
       \/ /\ doSync.keys \subseteq doSync.visited
          /\ doSync' = [doSync EXCEPT !.pc = "pulls", !.keys = {},
                                      !.visited = {}]
    /\ UNCHANGED <<routerVars, pullVars, pushing, unhandledMessages, gpc,
                   syncState>>

\* part_001 lines 335-347: the pull request is sent
AsyncPullFileCall(expectedHash, sendOk) ==
    /\ pull.pc = "idle"
    /\ IF sendOk
       THEN /\ sent' = Append(sent, "pull")
            /\ pull' = [NoPull EXCEPT !.pc = "header",
                                      !.expected = expectedHash]
       ELSE /\ pull' = [NoPull EXCEPT !.pc = "returned", !.result = "err",
                                      !.expected = expectedHash]
            /\ UNCHANGED sent

\* part_004 lines 497-500: DoSync reads the entry of the next path to pull
\* and calls PullFile
DoSyncPull(sendOk) ==
    /\ Running
    /\ doSync.pc = "pulls"
    /\ doSync.i <= Len(doSync.pullPaths)
    /\ LET pullEntry == Lookup(syncState.RemoteFiles,
                               doSync.pullPaths[doSync.i], ZeroEntry)
       IN  AsyncPullFileCall(pullEntry.Hash, sendOk)
    /\ UNCHANGED <<routerVars, pushing, unhandledMessages, gpc, asyncVars>>

\* part_001 lines 349-361: the next frame of the channel is taken for the
\* header
AsyncPullFileHeader ==
    /\ Running
    /\ pull.pc = "header"
    /\ unhandledMessages # <<>>
    /\ unhandledMessages' = Tail(unhandledMessages)
    /\ LET header == Head(unhandledMessages)
       IN  pull' = CASE ~IsJson(header) \/ header.kind = "header_bad" ->
                          PullFails
                     [] header.pieces > 0 ->
                          [pull EXCEPT !.pc = "pieces",
                                       !.size = header.size,
                                       !.pieces = header.pieces]
                     [] OTHER ->
                          [pull EXCEPT !.pc = "size", !.size = header.size]
    /\ UNCHANGED <<routerVars, sent, pushing, gpc, asyncVars>>

\* part_001 lines 363-368: the next frame of the channel is taken for a
\* piece
AsyncPullFilePiece ==
    /\ Running
    /\ pull.pc = "pieces"
    /\ unhandledMessages # <<>>
    /\ unhandledMessages' = Tail(unhandledMessages)
    /\ pull' = [pull EXCEPT
                   !.n = @ + 1,
                   !.data = @ \o RawBytes(Head(unhandledMessages)),
                   !.pc = IF pull.n + 1 < pull.pieces THEN "pieces" ELSE "size"]
    /\ UNCHANGED <<routerVars, sent, pushing, gpc, asyncVars>>

\* part_001 lines 381-393: the digest is compared with the expected hash,
\* which onPush has decrypted
AsyncPullFileCheckHash ==
    /\ Running
    /\ pull.pc = "hash"
    /\ LET expectedHashBytes == HexDecodeDigest(pull.expected)
       IN  pull' = CASE expectedHashBytes.err -> PullFails
                     [] ~HashMatches(pull.content, expectedHashBytes.val) ->
                          PullFails
                     [] OTHER ->
                          [pull EXCEPT !.pc = "returned", !.result = "content"]
    /\ UNCHANGED <<routerVars, sent, pushVars, gpc, asyncVars>>

\* part_004 lines 500-513: PullFile has returned; DoSync goes on to the
\* next path, or its error ends the process
DoSyncPulled ==
    /\ Running
    /\ doSync.pc = "pulls"
    /\ pull.pc \in {"returned", "crashed"}
    /\ IF pull.result = "content"
       THEN /\ doSync' = [doSync EXCEPT !.i = @ + 1]
            /\ pull' = NoPull
            /\ UNCHANGED gpc
       ELSE /\ gpc' = Stopped
            /\ UNCHANGED <<doSync, pull>>
    /\ UNCHANGED <<routerVars, sent, pushVars, syncState>>

\* part_004 lines 516-527: the pulls are done; DoSync reads the next file
\* to push from disk and calls PushFile
DoSyncPush(readOk, encryptOk, sendOk) ==
    /\ Running
    /\ doSync.pc \in {"pulls", "pushes"}
    /\ doSync.i > Len(doSync.pullPaths)
    /\ doSync.i - Len(doSync.pullPaths) <= Len(doSync.pushPaths)
    /\ pull.pc = "idle"
    /\ pushing.pc = "idle"
    /\ doSync' = [doSync EXCEPT !.pc = "pushes"]
    /\ IF readOk
       THEN /\ PushFileSend(encryptOk, sendOk)
            /\ UNCHANGED gpc
       ELSE /\ gpc' = Stopped
            /\ UNCHANGED <<pushing, sent>>
    /\ UNCHANGED <<routerVars, pull, unhandledMessages, syncState>>

\* part_004 lines 527-531: PushFile has returned; DoSync goes on to the
\* next path, or its error ends the process
DoSyncPushed ==
    /\ Running
    /\ doSync.pc = "pushes"
    /\ pushing.pc = "returned"
    /\ IF pushing.result = "ok"
       THEN /\ doSync' = [doSync EXCEPT !.i = @ + 1]
            /\ pushing' = NoExchange
            /\ UNCHANGED gpc
       ELSE /\ gpc' = Stopped
            /\ UNCHANGED <<doSync, pushing>>
    /\ UNCHANGED <<routerVars, pullVars, unhandledMessages, syncState>>

\* part_004 lines 533-535 and 368-381: DoSync returns and the syncer waits
\* for the next signal
DoSyncReturn ==
    /\ Running
    /\ doSync.pc \in {"pulls", "pushes"}
    /\ doSync.i > Len(doSync.pullPaths) + Len(doSync.pushPaths)
    /\ pull.pc = "idle"
    /\ pushing.pc = "idle"
    /\ doSync' = NoDoSync
    /\ gpc' = [gpc EXCEPT !["syncer"] = "idle"]
    /\ UNCHANGED <<routerVars, pullVars, pushVars, syncState>>

(***************************************************************************)
(* Sync of the asynchronous variant after SendInit: the transport delivers *)
(* the frames the server chooses, handleMessages dispatches them, and the  *)
(* syncer runs a DoSync for every signal.  The server keeps to the         *)
(* protocol.  State and DoSync are exported: the maps a caller hands to    *)
(* DoSync are drawn from AsyncLocals and AsyncRemotes, the empty maps of   *)
(* Sync among them.                                                        *)
(***************************************************************************)
EntryOf(path, uid, hash, modified) ==
    [Path |-> path, IsFolder |-> FALSE, Hash |-> hash, Uid |-> uid,
     Created |-> 0, Modified |-> modified]

AsyncLocals ==
    {EmptyMap}
    \cup {[p \in {"a.md"} |-> EntryOf("a.md", u, "hexsha_c1", m)] :
            u \in 0..MaxUid, m \in Times}

AsyncRemotes ==
    {EmptyMap, [p \in {"a.md"} |-> EntryOf("a.md", 1, "hexsha_c1", 1)]}

\* frames of this kind read from the transport so far
Delivered(kind) ==
    Cardinality({n \in DOMAIN readLog : readLog[n].kind = kind})

\* requests of this kind written to the transport so far
Requested(kind) == Cardinality({n \in DOMAIN sent : sent[n] = kind})

\* the deletions read from the transport so far
Deletions ==
    Cardinality({n \in DOMAIN readLog :
                    /\ "push" \in DOMAIN readLog[n]
                    /\ readLog[n].push.Deleted})

\* what the server may send next: a push at any moment, the deletion of
\* a.md and ready once, and an answer only to a request that has none yet
AsyncFrames(id) ==
    {IncomingPush(id, PushOf("e1", 2, "h1", 1, 1, FALSE, FALSE)),
     IncomingPush(id, PushOf("ebad", 1, "h1", 1, 1, FALSE, FALSE))}
    \cup (IF Deletions = 0
          THEN {IncomingPush(id, PushOf("e1", 2, "h1", 1, 1, FALSE, TRUE))}
          ELSE {})
    \cup (IF Delivered("op_ready") = 0 THEN {ReadyFrame(id, 1)} ELSE {})
    \cup (IF Delivered("size") < Requested("size")
          THEN {Frame(id, "size")} ELSE {})
    \cup (IF Delivered("header") < Requested("pull")
          THEN {HeaderFrame(id, NonceSize + 1, 1)} ELSE {})
    \cup (IF Delivered("bin") < Delivered("header")
          THEN {BinaryFrame(id, Encrypt("c1", VaultKey, "n1"))} ELSE {})
    \cup (IF Delivered("res_next") < Requested("push")
          THEN {Frame(id, "res_next")} ELSE {})
    \cup (IF Delivered("op_ok") < Requested("bin")
          THEN {Frame(id, "op_ok")} ELSE {})

asyncQuietVars ==
    <<syncVars, variant, writing, waits, reader, pinger, unansweredPingCount,
      initVars, dispatchVars, timeVars, cryptoVars>>

AsyncInit ==
    /\ RouterIdle /\ SyncIdle /\ PushIdle /\ InitIdle /\ DispatchIdle
    /\ SideIdle
    /\ variant = "async"
    /\ pull = NoPull
    /\ sent = <<"init">>
    /\ writing = {}
    /\ gpc = [g \in Goroutines |->
                 CASE g = "main" -> "logs"
                   [] g = "handler" -> "listen"
                   [] g = "syncer" -> "idle"
                   [] OTHER -> "sleep"]
    /\ waits = 0
    /\ reader = [i \in Waits |-> NoGoroutine]
    /\ pinger = [i \in Waits |-> NoGoroutine]
    /\ unansweredPingCount = [i \in Waits |-> 0]
    /\ doSync = NoDoSync
    /\ syncState \in {[LocalFiles |-> l, RemoteFiles |-> r] :
                         l \in AsyncLocals, r \in AsyncRemotes}

TransportDelivers ==
    /\ Running
    /\ nread < MaxMessages
    /\ \E f \in AsyncFrames(nread + 1) : ListenForMessages(f)
    /\ UNCHANGED <<pull, gpc, asyncVars, asyncQuietVars, asyncLog>>

\* onReady has run: the size request is on the transport
ReadyHandled == \E n \in DOMAIN sent : sent[n] = "size"

\* the paths whose entry this step of onPush writes
Written == {path \in DOMAIN syncState'.RemoteFiles :
               \/ path \notin DOMAIN syncState.RemoteFiles
               \/ syncState'.RemoteFiles[path] # syncState.RemoteFiles[path]}

\* the deleted paths once onPush has applied the push of msg
DeletedAfter(msg) ==
    LET path == DecryptString(msg.push.EncryptedPath, VaultKey).val
    IN  IF msg.push.Deleted THEN asyncLog.deleted \cup {path}
        ELSE asyncLog.deleted \ {path}

HandlerPush ==
    /\ \E fatal \in BOOLEAN : HandleMessagesPush(fatal)
    /\ LET msg == Head(unhandledMessages)
           applied == /\ OnPush(syncState.RemoteFiles, msg).res = "ok"
                      /\ gpc' = gpc
       IN  asyncLog' = [asyncLog EXCEPT
                           !.pending = IF ReadyHandled THEN @ \cup Written
                                       ELSE @,
                           !.deleted = IF applied THEN DeletedAfter(msg)
                                       ELSE @]
    /\ UNCHANGED asyncQuietVars

HandlerReady ==
    /\ \E sendOk \in BOOLEAN : HandleMessagesReady(sendOk)
    /\ UNCHANGED <<asyncQuietVars, asyncLog>>

HandlerSize == SendAndHandleSizeOp /\ UNCHANGED <<asyncQuietVars, asyncLog>>

HandlerOther ==
    /\ HandleMessagesOther
    /\ asyncLog' = [asyncLog EXCEPT
                       !.taken = @ \cup {Head(unhandledMessages).kind}]
    /\ UNCHANGED asyncQuietVars

SyncerCall == DoSyncCall /\ UNCHANGED <<asyncQuietVars, asyncLog>>

SyncerRemoteLoop ==
    /\ DoSyncRemoteLoop
    /\ asyncLog' = [asyncLog EXCEPT
                       !.pending = @ \ (doSync'.visited \ doSync.visited)]
    /\ UNCHANGED asyncQuietVars

SyncerLocalLoop == DoSyncLocalLoop /\ UNCHANGED <<asyncQuietVars, asyncLog>>

SyncerPull ==
    /\ \E sendOk \in BOOLEAN : DoSyncPull(sendOk)
    /\ UNCHANGED <<asyncQuietVars, asyncLog>>

SyncerPullHeader == AsyncPullFileHeader /\ UNCHANGED <<asyncQuietVars, asyncLog>>

SyncerPullPiece == AsyncPullFilePiece /\ UNCHANGED <<asyncQuietVars, asyncLog>>

SyncerPullCheckSize ==
    /\ Running
    /\ PullFileCheckSize
    /\ UNCHANGED <<pushing, unhandledMessages, gpc, asyncVars, asyncQuietVars, asyncLog>>

SyncerPullDecrypt ==
    /\ Running
    /\ PullFileDecrypt
    /\ UNCHANGED <<pushing, unhandledMessages, gpc, asyncVars, asyncQuietVars, asyncLog>>

SyncerPullCheckHash == AsyncPullFileCheckHash /\ UNCHANGED <<asyncQuietVars, asyncLog>>

SyncerPulled == DoSyncPulled /\ UNCHANGED <<asyncQuietVars, asyncLog>>

SyncerPush ==
    /\ \E readOk \in BOOLEAN, encryptOk \in BOOLEAN, sendOk \in BOOLEAN :
          DoSyncPush(readOk, encryptOk, sendOk)
    /\ UNCHANGED <<asyncQuietVars, asyncLog>>

SyncerPushNext ==
    /\ Running
    /\ \E sendOk \in BOOLEAN : AsyncPushFileNext(sendOk)
    /\ UNCHANGED <<pull, gpc, asyncVars, asyncQuietVars, asyncLog>>

SyncerPushEcho ==
    /\ Running
    /\ AsyncPushFileEcho
    /\ UNCHANGED <<pull, gpc, asyncVars, asyncQuietVars, asyncLog>>

SyncerPushOk ==
    /\ Running
    /\ AsyncPushFileOk
    /\ UNCHANGED <<pull, gpc, asyncVars, asyncQuietVars, asyncLog>>

SyncerPushed == DoSyncPushed /\ UNCHANGED <<asyncQuietVars, asyncLog>>

SyncerReturn == DoSyncReturn /\ UNCHANGED <<asyncQuietVars, asyncLog>>

AsyncNext ==
    \/ TransportDelivers
    \/ HandlerPush
    \/ HandlerReady
    \/ HandlerSize
    \/ HandlerOther
    \/ SyncerCall
    \/ SyncerRemoteLoop
    \/ SyncerLocalLoop
    \/ SyncerPull
    \/ SyncerPullHeader
    \/ SyncerPullPiece
    \/ SyncerPullCheckSize
    \/ SyncerPullDecrypt
    \/ SyncerPullCheckHash
    \/ SyncerPulled
    \/ SyncerPush
    \/ SyncerPushNext
    \/ SyncerPushEcho
    \/ SyncerPushOk
    \/ SyncerPushed
    \/ SyncerReturn

AsyncSpec == AsyncInit /\ [][AsyncNext]_vars

\* a session whose remote map starts empty, as Sync makes it, with nothing
\* or one file on the local side
FreshAsyncInit ==
    /\ AsyncInit
    /\ syncState.RemoteFiles = EmptyMap
    /\ syncState.LocalFiles \in
          {EmptyMap, [p \in {"a.md"} |-> EntryOf("a.md", 1, "hexsha_c1", 1)]}

\* the scheduler runs a goroutine that can run
FairAsyncSpec == FreshAsyncInit /\ [][AsyncNext]_vars /\ WF_vars(AsyncNext)

(***************************************************************************)
(* C1: every frame read from the transport is either held in filteredQueue *)
(* exactly once or was returned exactly once, to a call whose predicate it *)
(* satisfies: none is dropped, none is returned twice, none is returned to *)
(* a call whose predicate rejects it.                                      *)
(***************************************************************************)
TimesQueued(f) == Cardinality({i \in 1..Len(filteredQueue) : filteredQueue[i] = f})

TimesReturned(f) == Cardinality({i \in 1..Len(returned) : returned[i].frame = f})

C1_NoFrameLostOrDuplicated ==
    /\ \A n \in 1..Len(readLog) :
          TimesQueued(readLog[n]) + TimesReturned(readLog[n]) = 1
    /\ \A i \in 1..Len(filteredQueue) :
          \E n \in 1..Len(readLog) : readLog[n] = filteredQueue[i]
    /\ \A i \in 1..Len(returned) :
          /\ \E n \in 1..Len(readLog) : readLog[n] = returned[i].frame
          /\ Matches(returned[i].matcher, returned[i].frame)

\* a frame was returned from the buffer, another straight from the
\* transport, and a third is still buffered
C1_Witness ==
    /\ \E i \in 1..Len(returned) : returned[i].buffered
    /\ \E i \in 1..Len(returned) : ~returned[i].buffered
    /\ Len(filteredQueue) >= 1
    /\ nread >= 3

(***************************************************************************)
(* C2: a call returns the earliest-arrived unclaimed frame its predicate   *)
(* accepts.  If a buffered frame matches, the first such frame of          *)
(* filteredQueue is returned, nothing is read, exactly that frame leaves   *)
(* the queue and the others keep their order; otherwise the frame returned *)
(* is the one just read.  A frame read and not accepted goes to the back   *)
(* of the queue, which is therefore always in arrival order.               *)
(***************************************************************************)
QueueWithout(q, i) ==
    [k \in 1..(Len(q) - 1) |-> IF k < i THEN q[k] ELSE q[k + 1]]

ReturnStepOk ==
    Len(returned') > Len(returned) =>
        LET r == returned'[Len(returned')]
            hits == {i \in 1..Len(filteredQueue) : Matches(r.matcher, filteredQueue[i])}
        IN  /\ Len(returned') = Len(returned) + 1
            /\ IF hits # {}
               THEN \E i \in hits :
                        /\ \A j \in hits : i <= j
                        /\ r.frame = filteredQueue[i]
                        /\ r.buffered
                        /\ nread' = nread
                        /\ filteredQueue' = QueueWithout(filteredQueue, i)
               ELSE /\ ~r.buffered
                    /\ nread' = nread + 1
                    /\ r.frame = readLog'[nread']
                    /\ filteredQueue' = filteredQueue

BufferStepOk ==
    (nread' # nread /\ returned' = returned) =>
        filteredQueue' = filteredQueue \o <<readLog'[nread']>>

QueueInArrivalOrder ==
    \A i, j \in 1..Len(filteredQueue) :
        i < j => filteredQueue[i].id < filteredQueue[j].id

C2_EarliestMatchingFrame ==
    /\ []QueueInArrivalOrder
    /\ [][ReturnStepOk /\ BufferStepOk]_vars

\* a frame was taken from the middle of the buffer: an older frame and a
\* younger frame the same predicate accepts are both still queued
C2_Witness ==
    \E i \in 1..Len(returned) :
        /\ returned[i].buffered
        /\ \E a, b \in 1..Len(filteredQueue) :
              /\ filteredQueue[a].id < returned[i].frame.id
              /\ filteredQueue[b].id > returned[i].frame.id
              /\ Matches(returned[i].matcher, filteredQueue[b])

(***************************************************************************)
(* The decisions of the pass in progress, as sets, and the maps it found.  *)
(***************************************************************************)
SetOf(list) == {list[i] : i \in 1..Len(list)}

ToPull == SetOf(pass.d.pullPaths)

ToPush == SetOf(pass.d.pushPaths)

ToDelete == SetOf(pass.d.deletePaths)

ToCreate == SetOf(pass.d.newFolderPaths)

Conflicting == SetOf(pass.d.conflictPaths)

InPass == pass.pc \in {"conflict", "delete", "folder", "pull", "push", "stamp"}

InBoth == DOMAIN passStart.local \cap DOMAIN passStart.remote

KindDiffers(path) ==
    /\ path \in InBoth
    /\ passStart.local[path].IsFolder # passStart.remote[path].IsFolder

LocalOnly(path) ==
    path \in DOMAIN passStart.local \ DOMAIN passStart.remote

Did(acts, path) ==
    \E i \in 1..Len(execLog) : execLog[i].act \in acts /\ execLog[i].path = path

(***************************************************************************)
(* C3: PullFile returns content only if the received pieces together have  *)
(* the length the header declared, which is checked before any decryption  *)
(* is attempted, and the SHA-256 of the decrypted content is the decrypted *)
(* expected hash; a pull that fails a check returns an error, and the pass *)
(* records a path in LocalFiles only for a pull that returned content, and *)
(* stops on one that returned an error.                                    *)
(***************************************************************************)
SizeAsDeclared(p) == Len(p.data) = p.size

HashAsExpected(p) ==
    LET expected == DecryptString(p.expected, VaultKey)
    IN  /\ expected.res = "ok"
        /\ HexDecodeDigest(expected.val) = [err |-> FALSE, val |-> Sha256(p.content)]

PullChecked ==
    /\ pull.tried => SizeAsDeclared(pull)
    /\ pull.pc \in {"decrypt", "hash", "crashed"} => SizeAsDeclared(pull)
    /\ pull.result = "content" =>
          /\ SizeAsDeclared(pull)
          /\ pull.tried
          /\ Decrypt(pull.data, VaultKey) = [res |-> "ok", val |-> pull.content]
          /\ HashAsExpected(pull)
    /\ (pull.pc = "returned" /\ pull.tried /\ ~HashAsExpected(pull)) =>
          pull.result = "err"
    /\ (pull.pc = "returned" /\ ~SizeAsDeclared(pull)) =>
          pull.result = "err" /\ ~pull.tried

PulledOnlyOnContent ==
    /\ (pass.pc = "pull" /\ LocalFiles' # LocalFiles) =>
          pull.pc = "returned" /\ pull.result = "content"
    /\ (pull.pc = "returned" /\ pull.result = "err" /\ pass' # pass) =>
          pass'.pc = "stopped" /\ LocalFiles' = LocalFiles

C3_PullIntegrity == []PullChecked /\ [][PulledOnlyOnContent]_vars

C3_Witness ==
    /\ pull.pc = "returned"
    /\ pull.result = "content"
    /\ pull.pieces >= 1
    /\ pull.content # ""
    /\ LocalFiles # EmptyMap

(***************************************************************************)
(* C4: in every PushFile exchange the push descriptor is sent first, the   *)
(* binary payload is sent only after a {res: next} frame was received,     *)
(* exactly one binary frame is sent, and PushFile returns success only     *)
(* after it has then consumed an op=push frame and after it an op=ok       *)
(* frame; an exchange in which the transport failed never reports success. *)
(***************************************************************************)
LogIndexes(entry) == {i \in 1..Len(pushing.log) : pushing.log[i] = entry}

DescriptorFirst == pushing.log # <<>> => pushing.log[1] = Sent("push")

BinaryAfterNext ==
    /\ Cardinality(LogIndexes(Sent("bin"))) <= 1
    /\ \A i \in LogIndexes(Sent("bin")) :
          \E j \in 1..(i - 1) : pushing.log[j] = [dir |-> "recv", kind |-> "res_next"]

SuccessAfterEchoAndOk ==
    pushing.result = "ok" =>
        \E b \in LogIndexes(Sent("bin")) :
        \E i \in LogIndexes([dir |-> "recv", kind |-> "op_push"])
                  \cup LogIndexes([dir |-> "recv", kind |-> "op_push_other"]) :
        \E j \in LogIndexes([dir |-> "recv", kind |-> "op_ok"]) :
            b < i /\ i < j

C4_PushExchangeOrder ==
    /\ DescriptorFirst
    /\ BinaryAfterNext
    /\ SuccessAfterEchoAndOk
    /\ pushing.failed => pushing.result = "err"

\* the same of the synchronous variant alone
PushExchangeOrderSync == variant = "sync" => C4_PushExchangeOrder

(***************************************************************************)
(* C5, as claimed: in every pass ToPull, ToPush, ToDelete and Conflicting  *)
(* are pairwise disjoint.                                                  *)
(***************************************************************************)
C5_DecisionSetsDisjoint ==
    InPass =>
        /\ ToPull \cap ToPush = {}
        /\ ToPull \cap ToDelete = {}
        /\ ToPull \cap Conflicting = {}
        /\ ToPush \cap ToDelete = {}
        /\ ToPush \cap Conflicting = {}
        /\ ToDelete \cap Conflicting = {}

(***************************************************************************)
(* C5, amended: ToPull, ToPush and Conflicting are pairwise disjoint.      *)
(* ToDelete shares a path with ToPull or Conflicting only when the path's  *)
(* kind differs between the maps (delete, then pull or create), and with   *)
(* ToPush only when the path is local only.                                *)
(***************************************************************************)
C5_DisjointButForDelete ==
    InPass =>
        /\ ToPull \cap ToPush = {}
        /\ ToPull \cap Conflicting = {}
        /\ ToPush \cap Conflicting = {}
        /\ \A path \in ToDelete \cap (ToPull \cup Conflicting) : KindDiffers(path)
        /\ \A path \in ToDelete \cap ToPush : LocalOnly(path)

\* a pass that deletes and pulls one path, and has another to push
C5_Witness ==
    /\ InPass
    /\ ToDelete \cap ToPull # {}
    /\ ToPush # {}
    /\ Conflicting = {}

(***************************************************************************)
(* C6, as claimed: a pass does not pull, push, delete or create a path it  *)
(* placed in Conflicting, and leaves the path's entries in both maps as it *)
(* found them.                                                             *)
(***************************************************************************)
C6_ConflictsUntouched ==
    InPass =>
        \A path \in Conflicting :
            /\ ~Did({"pull", "push", "delete", "folder"}, path)
            /\ path \in DOMAIN LocalFiles
            /\ LocalFiles[path] = passStart.local[path]
            /\ path \in DOMAIN RemoteEntries
            /\ RemoteEntries[path] = passStart.remote[path]

(***************************************************************************)
(* C7, as claimed: a path in both maps whose local modification time is    *)
(* greater than the remote one is in Conflicting and in no other set.      *)
(***************************************************************************)
LocalNewer(path) ==
    /\ path \in InBoth
    /\ passStart.local[path].Modified > passStart.remote[path].Modified

Rank(act) ==
    CASE act = "conflict" -> 0
      [] act = "delete" -> 1
      [] act = "folder" -> 2
      [] act = "pull" -> 3
      [] OTHER -> 4

C8_ExecutionOrder ==
    /\ \A i, j \in 1..Len(execLog) :
          i < j => Rank(execLog[i].act) <= Rank(execLog[j].act)
    /\ \A j \in 1..Len(execLog) :
          (execLog[j].act \in {"folder", "pull"} /\ KindDiffers(execLog[j].path)) =>
              \E i \in 1..(j - 1) :
                  execLog[i] = [act |-> "delete", path |-> execLog[j].path]

\* a pass that has deleted, created, pulled and pushed
C8_Witness ==
    /\ \A act \in {"delete", "folder", "pull", "push"} :
          \E i \in 1..Len(execLog) : execLog[i].act = act
    /\ \E path \in Paths : KindDiffers(path) /\ Did({"delete"}, path)

(***************************************************************************)
(* C9: RemoteEntries holds key k exactly when the last push applied for k  *)
(* was not a deletion, and then the entry carries that push's uid, hash,   *)
(* ctime, mtime and folder flag.                                           *)
(***************************************************************************)
C9_RemoteEntriesTrackLastPush ==
    \A k \in Paths :
        /\ k \in DOMAIN RemoteEntries <=>
              (lastPush[k] # NoPush /\ ~lastPush[k].Deleted)
        /\ k \in DOMAIN RemoteEntries =>
              /\ RemoteEntries[k].EncryptedPath = k
              /\ RemoteEntries[k].Uid = lastPush[k].Uid
              /\ RemoteEntries[k].EncryptedHash = lastPush[k].EncryptedHash
              /\ RemoteEntries[k].Created = lastPush[k].Ctime
              /\ RemoteEntries[k].Modified = lastPush[k].Mtime
              /\ RemoteEntries[k].IsFolder = lastPush[k].Folder

\* e1 was pushed, pulled and then deleted by a push; e2 was pushed twice
C9_Witness ==
    /\ "e1" \in DOMAIN LocalFiles
    /\ lastPush["e1"].Deleted
    /\ "e1" \notin DOMAIN RemoteEntries
    /\ "e2" \in DOMAIN LocalFiles
    /\ "e2" \in DOMAIN RemoteEntries
    /\ RemoteEntries["e2"].Uid = 2
    /\ RemoteEntries["e2"].EncryptedHash = "h2"

(***************************************************************************)
(* C10: transport writes are mutually exclusive: at no time are two sends  *)
(* in progress, so the send of a keepalive ping never overlaps the send of *)
(* a protocol exchange, in either variant.                                 *)
(***************************************************************************)
C10_WritesExclusive == Cardinality(writing) <= 1

\* the overlaps of a ping with a send of an exchange, by variant
PingOverlapsExchange(v) ==
    /\ variant = v
    /\ \E w \in writing : w.kind = "ping"
    /\ \E w \in writing : w.kind # "ping"

(***************************************************************************)
(* C16: a pass schedules exactly one action for every remote path absent   *)
(* from LocalFiles: create-folder if the remote entry is a folder, pull    *)
(* otherwise.  With an empty local map and a remote map of one file entry  *)
(* the decision is ToPull = {that path} and every other list empty.        *)
(***************************************************************************)
Occurrences(list, path) == Cardinality({i \in 1..Len(list) : list[i] = path})

Scheduled(path) ==
    Occurrences(pass.d.pullPaths, path) + Occurrences(pass.d.pushPaths, path)
    + Occurrences(pass.d.newFolderPaths, path)
    + Occurrences(pass.d.deletePaths, path)
    + Occurrences(pass.d.conflictPaths, path)

RemoteOnly == DOMAIN passStart.remote \ DOMAIN passStart.local

C16_RemoteOnlyPulledOrCreated ==
    InPass =>
        /\ \A path \in RemoteOnly :
              /\ Scheduled(path) = 1
              /\ IF passStart.remote[path].IsFolder
                 THEN path \in ToCreate
                 ELSE path \in ToPull
        /\ \A path \in Paths :
              (/\ passStart.local = EmptyMap
               /\ DOMAIN passStart.remote = {path}
               /\ ~passStart.remote[path].IsFolder)
              => /\ pass.d.pullPaths = <<path>>
                 /\ ToPush = {} /\ ToDelete = {} /\ Conflicting = {}
                 /\ ToCreate = {}

\* a pass over a remote-only file and a remote-only folder
C16_Witness ==
    /\ InPass
    /\ \E path \in RemoteOnly : passStart.remote[path].IsFolder
    /\ \E path \in RemoteOnly : ~passStart.remote[path].IsFolder

(***************************************************************************)
(* C17: a path present in both maps, a file in both, is in ToPull exactly  *)
(* when the remote modification time is strictly greater than the local    *)
(* one, in Conflicting exactly when the local one is strictly greater, and *)
(* in no list at all when the two are equal.                               *)
(***************************************************************************)
BothFiles ==
    {path \in InBoth :
        ~passStart.local[path].IsFolder /\ ~passStart.remote[path].IsFolder}

C17_FilesComparedByMtime ==
    InPass =>
        \A path \in BothFiles :
            LET localFile == passStart.local[path]
                remoteFile == passStart.remote[path]
            IN  /\ path \in ToPull <=> remoteFile.Modified > localFile.Modified
                /\ path \in Conflicting <=> localFile.Modified > remoteFile.Modified
                /\ localFile.Modified = remoteFile.Modified => Scheduled(path) = 0

\* a pass over a file of equal times in both maps and a file newer remotely
C17_Witness ==
    /\ InPass
    /\ \E path \in BothFiles :
          passStart.local[path].Modified = passStart.remote[path].Modified
    /\ \E path \in BothFiles :
          passStart.local[path].Modified < passStart.remote[path].Modified

(***************************************************************************)
(* C18, as claimed: every local path without an entry in RemoteEntries is  *)
(* placed in ToPush, whatever its modification time, 0 included.           *)
(***************************************************************************)
LocalOnlyPaths == DOMAIN passStart.local \ DOMAIN passStart.remote

C18_LocalOnlyPushed ==
    InPass => \A path \in LocalOnlyPaths : path \in ToPush

(***************************************************************************)
(* C19: a local path without a remote entry is in ToDelete exactly when    *)
(* its creation time is strictly less than LastSync; its modification time *)
(* plays no part.                                                          *)
(***************************************************************************)
C19_StaleByCreationTime ==
    InPass =>
        \A path \in LocalOnlyPaths :
            path \in ToDelete <=> passStart.local[path].Created < LastSync

\* a local-only path created before the last sync and modified after it,
\* and so both deleted and pushed
C19_Witness ==
    /\ InPass
    /\ \E path \in LocalOnlyPaths :
          /\ passStart.local[path].Created < LastSync
          /\ passStart.local[path].Modified > LastSync
          /\ path \in ToDelete
          /\ path \in ToPush

(***************************************************************************)
(* C13, as claimed: if a frame other than the acknowledgment, a push or    *)
(* the ready frame arrives before ready during the handshake, SendInit     *)
(* does not succeed.                                                       *)
(***************************************************************************)
ReadyIndexes ==
    {i \in 1..Len(readLog) : IsJson(readLog[i]) /\ FieldOf(readLog[i], "op") = "ready"}

\* the position in readLog of the first ready frame (past the end if none)
FirstReady ==
    IF ReadyIndexes = {} THEN Len(readLog) + 1
    ELSE CHOOSE i \in ReadyIndexes : \A j \in ReadyIndexes : i <= j

IsHandshakeFrame(f) ==
    /\ IsJson(f)
    /\ \/ FieldOf(f, "res") = "ok"
       \/ FieldOf(f, "op") \in {"push", "ready"}

C13_StrayFrameFailsHandshake ==
    handshake.result = "ok" =>
        \A i \in 1..(FirstReady - 1) : IsHandshakeFrame(readLog[i])

(***************************************************************************)
(* C14: when SendInit succeeds, PushedFiles is the sequence of op=push     *)
(* frames that arrived before the first op=ready frame, in arrival order,  *)
(* RemoteUid is the version of that ready frame, and every push frame read *)
(* after that ready frame is still in filteredQueue.                       *)
(***************************************************************************)
IsPushFrame(f) == IsJson(f) /\ FieldOf(f, "op") = "push"

PushesBeforeReady == SelectSeq(SubSeq(readLog, 1, FirstReady - 1), IsPushFrame)

C14_SnapshotIsPushesBeforeReady ==
    handshake.result = "ok" =>
        /\ handshake.PushedFiles = PushesBeforeReady
        /\ FirstReady <= Len(readLog)
        /\ handshake.RemoteUid = readLog[FirstReady].version
        /\ \A i \in (FirstReady + 1)..Len(readLog) :
              IsPushFrame(readLog[i]) =>
                 \E j \in 1..Len(filteredQueue) : filteredQueue[j] = readLog[i]

\* a handshake that took two pushes, one of them buffered before the
\* acknowledgment came
C14_Witness ==
    /\ handshake.result = "ok"
    /\ Len(handshake.PushedFiles) = 2
    /\ \E i \in 1..Len(returned) :
          returned[i].buffered /\ IsPushFrame(returned[i].frame)

(***************************************************************************)
(* C15, as claimed: PushFile returns success only when the op=push frame   *)
(* it consumed as the echo describes the file that was pushed; a push      *)
(* frame for a different path in that position makes the push fail.        *)
(***************************************************************************)
C15_EchoIsForPushedFile ==
    pushing.result = "ok" =>
        \A b \in LogIndexes(Sent("bin")) :
            b < Len(pushing.log) =>
                pushing.log[b + 1] # [dir |-> "recv", kind |-> "op_push_other"]

(***************************************************************************)
(* C12, as claimed: in the synchronous discipline at most one goroutine is *)
(* inside nextMessageMatching at any time: the reader of a                 *)
(* WaitForPushMessage call has stopped before the next pass or the next    *)
(* call waits.                                                             *)
(***************************************************************************)
Awaiters ==
    {[g |-> "reader", i |-> i] : i \in {j \in Waits : reader[j].pc = "read"}}
    \cup (IF gpc["main"] = "await" THEN {[g |-> "main", i |-> 0]} ELSE {})

C12_OneAwaiter == variant = "sync" => Cardinality(Awaiters) <= 1


(***************************************************************************)
(* C11: in the asynchronous variant a push is never applied to the remote  *)
(* map while a reconciliation pass is under way: no step changes           *)
(* RemoteFiles at a moment at which DoSync has started and has not         *)
(* returned.                                                               *)
(***************************************************************************)
C11_PushSerializedWithDoSync ==
    [][syncState.RemoteFiles' # syncState.RemoteFiles => doSync.pc = "idle"]_vars

\* a pass that began with both maps empty, as Sync makes them, has its
\* remote map written under it
PushAppliedUnderPass ==
    [][(/\ syncState.RemoteFiles' # syncState.RemoteFiles
        /\ syncState.LocalFiles = EmptyMap
        /\ doSync.start = EmptyMap) => doSync.pc = "idle"]_vars

(***************************************************************************)
(* C20: once DoSync has made its lists from maps no push has changed under *)
(* it, every path that is in both maps with a local entry modified later   *)
(* than the remote entry and a local version ahead of the remote version   *)
(* is in the list of paths to push and not in the list of conflicts.       *)
(***************************************************************************)
LocalAhead ==
    {path \in DOMAIN syncState.LocalFiles \cap DOMAIN syncState.RemoteFiles :
        /\ syncState.LocalFiles[path].Modified
              > syncState.RemoteFiles[path].Modified
        /\ syncState.LocalFiles[path].Uid > syncState.RemoteFiles[path].Uid}

Decided ==
    /\ doSync.pc \in {"pulls", "pushes"}
    /\ syncState.RemoteFiles = doSync.start

C20_LocalAheadPushed ==
    Decided =>
        \A path \in LocalAhead :
            /\ path \in SetOf(doSync.pushPaths)
            /\ path \notin SetOf(doSync.conflictPaths)

C20_Witness ==
    /\ Decided
    /\ \E path \in LocalAhead :
          /\ syncState.RemoteFiles[path].Modified > 0
          /\ path \in SetOf(doSync.pushPaths)
          /\ path \notin SetOf(doSync.conflictPaths)

(***************************************************************************)
(* C21: the decision step is a function of LocalFiles, RemoteEntries and   *)
(* LastSync alone: whatever the orders in which the two ranges run over    *)
(* the maps, the sets of paths to pull, to push, to delete and in conflict *)
(* are the same, and they are the sets of the pass in progress as long as  *)
(* nothing has changed the three values.                                   *)
(***************************************************************************)
SameSets(d1, d2) ==
    /\ SetOf(d1.pullPaths) = SetOf(d2.pullPaths)
    /\ SetOf(d1.pushPaths) = SetOf(d2.pushPaths)
    /\ SetOf(d1.deletePaths) = SetOf(d2.deletePaths)
    /\ SetOf(d1.conflictPaths) = SetOf(d2.conflictPaths)

\* the decision step run again on the values of this state
DecidedAgain(orderR, orderL) ==
    Decide(LocalFiles, RemoteEntries, LastSync, orderR, orderL)

Unmutated ==
    /\ LocalFiles = passStart.local
    /\ RemoteEntries = passStart.remote

C21_DecisionsDeterministic ==
    \A orderR \in Orders(DOMAIN RemoteEntries) :
    \A orderL \in Orders(DOMAIN LocalFiles) :
        /\ \A otherR \in Orders(DOMAIN RemoteEntries) :
           \A otherL \in Orders(DOMAIN LocalFiles) :
              SameSets(DecidedAgain(orderR, orderL), DecidedAgain(otherR, otherL))
        /\ InPass /\ Unmutated => SameSets(pass.d, DecidedAgain(orderR, orderL))

\* a pass whose lists depend on the order of the range
C21_Witness ==
    /\ InPass /\ Unmutated
    /\ \E orderR \in Orders(DOMAIN RemoteEntries) :
       \E orderL \in Orders(DOMAIN LocalFiles) :
          /\ DecidedAgain(orderR, orderL) # pass.d
          /\ SameSets(pass.d, DecidedAgain(orderR, orderL))

(***************************************************************************)
(* C22: in daemon mode a step that leaves the wait either ends the loop    *)
(* with the error of the wait, or applies the one push obtained to         *)
(* RemoteEntries and makes the pass ready to start; nothing else changes   *)
(* RemoteEntries; a pass starts only from there, and once started it runs  *)
(* until it has stamped LastSync or returned an error, which ends the      *)
(* loop, before the next wait.                                             *)
(***************************************************************************)
PassSteps == {"conflict", "delete", "folder", "pull", "push", "stamp"}

\* this step applies one push, the one it records, and nothing more
AppliesOnePush ==
    \E path \in Paths :
        /\ lastPush'[path] # NoPush
        /\ lastPush' = [lastPush EXCEPT ![path] = lastPush'[path]]
        /\ RemoteEntries' = UpdateWithPush(RemoteEntries, lastPush'[path])

DaemonStep ==
    /\ pass.pc = "wait" =>
          \/ pass'.pc = "ready" /\ AppliesOnePush
          \/ pass'.pc = "stopped" /\ UNCHANGED RemoteEntries
          \/ UNCHANGED <<pass, RemoteEntries>>
    /\ pass.pc = "ready" =>
          /\ pass'.pc \in PassSteps \cup {"ready"}
          /\ UNCHANGED RemoteEntries
    /\ pass.pc \in PassSteps =>
          /\ pass'.pc \in PassSteps \cup {"wait", "stopped"}
          /\ pass'.pc = "wait" => pass.pc = "stamp" /\ LastSync' >= LastSync
          /\ UNCHANGED RemoteEntries
    /\ pass.pc = "stopped" => UNCHANGED <<pass, RemoteEntries, LocalFiles, LastSync>>

C22_DaemonIteration == [][DaemonStep]_vars

\* a pass of the daemon, triggered by a push, has run to its end
C22_Witness ==
    /\ pass.pc = "stamp"
    /\ LastSync > 0
    /\ \E path \in Paths :
          /\ lastPush[path] # NoPush
          /\ RemoteEntries = UpdateWithPush(passStart.remote, lastPush[path])
          /\ execLog # <<>>

(***************************************************************************)
(* C23: the dispatch loop routes every frame it takes to exactly one       *)
(* outcome: a JSON frame whose op is pong is ignored; a JSON frame with    *)
(* another op goes to the handler registered for that op, or fails the     *)
(* loop if there is none; a JSON frame without op goes to the catch-all    *)
(* handler, or fails the loop if there is none; any other frame goes to    *)
(* the binary handler, or fails the loop if there is none.  Frames are     *)
(* routed in arrival order, one at a time, and none after the first error. *)
(***************************************************************************)
RouteExpected(handlers, f) ==
    CASE IsJson(f) /\ FieldOf(f, "op") = "pong" -> "ignored"
      [] IsJson(f) /\ "op" \in KeysOf(f) /\ FieldOf(f, "op") # "pong" ->
            IF FieldOf(f, "op") \in handlers.ops THEN "op" ELSE "err"
      [] IsJson(f) /\ "op" \notin KeysOf(f) ->
            IF handlers.noOp THEN "noOp" ELSE "err"
      [] OTHER -> IF handlers.binary THEN "binary" ELSE "err"

RoutedAsExpected ==
    \A n \in 1..Len(dispatch.log) :
        dispatch.log[n].route =
            RouteExpected(dispatch.handlers, dispatch.log[n].frame)

RoutedInArrivalOrder ==
    \A n \in 1..Len(dispatch.log) : dispatch.log[n].frame = readLog[n]

StopsAtFirstError ==
    \A n \in 1..Len(dispatch.log) :
        (dispatch.log[n].route = "err" \/ dispatch.log[n].failed) =>
            /\ n = Len(dispatch.log)
            /\ dispatch.pc = "returned"

C23_EveryFrameRouted ==
    /\ RoutedAsExpected
    /\ RoutedInArrivalOrder
    /\ StopsAtFirstError
(***************************************************************************)
(* C24: any two consecutive pings on the transport are at least 20 seconds *)
(* apart, whichever WaitForPushMessage calls their pingers belong to.      *)
(***************************************************************************)
C24_PingsSpaced ==
    \A n \in 2..Len(clock.pings) :
        clock.pings[n] - clock.pings[n - 1] >= PingBaseSecs

(***************************************************************************)
(* C25: once WaitForPushMessage has returned the error of a failed         *)
(* transport, the reader and the pinger of that call eventually return.    *)
(***************************************************************************)
WaitFailed == gpc["main"] = "stopped"

GoroutinesReturned ==
    /\ waits \in Waits
    /\ reader[waits].pc = "returned"
    /\ pinger[waits].pc = "returned"

C25_GoroutinesTerminate == WaitFailed ~> GoroutinesReturned

(***************************************************************************)
(* C26: Decrypt with the password and salt of Encrypt returns the payload  *)
(* without error, empty or not; every ciphertext starts with the 12 bytes  *)
(* of its nonce; two encryptions of a payload whose nonces differ are      *)
(* different ciphertexts, and both decrypt to the payload.                 *)
(***************************************************************************)
NonceOf(encrypted) == SubSeq(encrypted, 1, NonceSize)

RoundTrip ==
    \A n \in 1..Len(crypto.decrypted) :
        LET d == crypto.decrypted[n]
        IN  d.password = crypto.password /\ d.salt = crypto.salt
                => d.out = [res |-> "ok", val |-> crypto.input]

NoncePrepended ==
    \A n \in 1..Len(crypto.encrypted) :
        LET e == crypto.encrypted[n]
        IN  /\ Len(e) > NonceSize
            /\ \E nonce \in Nonces :
                  NonceOf(e) = [i \in 1..NonceSize |-> NonceByte(nonce)]

FreshNonceFreshCiphertext ==
    \A m, n \in 1..Len(crypto.encrypted) :
        NonceOf(crypto.encrypted[m]) # NonceOf(crypto.encrypted[n])
            => crypto.encrypted[m] # crypto.encrypted[n]

IsOtherPush(f) == f.kind = "op_push_other"

Queued(f) == \E j \in 1..Len(filteredQueue) : filteredQueue[j] = f

C27_OtherPushQueued ==
    variant = "sync" =>
        \A i \in 1..Len(readLog) : IsOtherPush(readLog[i]) => Queued(readLog[i])

(***************************************************************************)
(* C28: once a pass has pushed a path with success, RemoteEntries holds    *)
(* the path.                                                               *)
(***************************************************************************)
C28_PushedIsRemote ==
    \A n \in 1..Len(execLog) :
        execLog[n].act = "push" => execLog[n].path \in DOMAIN RemoteEntries

(***************************************************************************)
(* C29: a pass stops at its first error.  A path that does not decrypt     *)
(* ends the pass at once; the step that returns the error changes neither  *)
(* map nor LastSync and executes nothing; nothing of the pass runs after   *)
(* it; and LocalFiles is what the actions executed before the error made   *)
(* of it.                                                                  *)
(***************************************************************************)
RECURSIVE Replayed(_, _)
Replayed(local, log) ==
    IF log = <<>> THEN local
    ELSE LET e == Head(log)
             remoteFile == Lookup(passStart.remote, e.path, ZeroRemote)
             next ==
                 CASE e.act = "delete" -> MapDelete(local, e.path)
                   [] e.act = "folder" ->
                        MapSet(local, e.path,
                               [Path |-> DecryptPath(e.path).val,
                                Created |-> 0, Modified |-> 0,
                                IsFolder |-> TRUE])
                   [] e.act = "pull" ->
                        MapSet(local, e.path,
                               [Path |-> DecryptPath(e.path).val,
                                Created |-> remoteFile.Created,
                                Modified |-> remoteFile.Modified,
                                IsFolder |-> remoteFile.IsFolder])
                   [] OTHER -> local
         IN  Replayed(next, Tail(log))

\* SyncFiles has returned an error: the maps the pass found are still
\* recorded
PassFailed ==
    /\ pass.pc = "stopped"
    /\ passStart.local # EmptyMap \/ passStart.remote # EmptyMap

DecryptFails ==
    /\ pass.pc \in {"conflict", "delete", "folder", "pull"}
    /\ InLoop(pass.pc)
    /\ DecryptPath(CurrentPath).err

EarlierChangesRemain ==
    PassFailed => LocalFiles = Replayed(passStart.local, execLog)

ErrorStep ==
    /\ DecryptFails => pass'.pc = "stopped"
    /\ (pass.pc # "stopped" /\ pass'.pc = "stopped") =>
          UNCHANGED <<LocalFiles, RemoteEntries, LastSync, execLog>>
    /\ pass.pc = "stopped" => UNCHANGED syncVars

C29_StopsAtFirstError == []EarlierChangesRemain /\ [][ErrorStep]_vars

\* a pass that failed after it had changed LocalFiles
C29_Witness ==
    /\ PassFailed
    /\ LocalFiles # passStart.local
    /\ execLog # <<>>

(***************************************************************************)
(* C30: LastSync changes only in the step that completes a pass; that step *)
(* sets it to the time of the clock and changes no map; a SyncFiles call   *)
(* that returns an error, UpdateWithPush and the exchanges of the pass     *)
(* leave it alone.                                                         *)
(***************************************************************************)
Completes == pass.pc = "stamp" /\ pass'.pc = "wait"

LastSyncStep ==
    /\ LastSync' # LastSync => Completes
    /\ pass'.pc = "stopped" => LastSync' = LastSync
    /\ Completes =>
          /\ LastSync' \in 1..MaxTime
          /\ LastSync' >= LastSync
          /\ UNCHANGED <<LocalFiles, RemoteEntries>>

C30_LastSyncOnlyAtCompletion == [][LastSyncStep]_vars

\* a pass has completed and a later one has failed after executing
\* something
C30_Witness ==
    /\ PassFailed
    /\ LastSync > 0
    /\ execLog # <<>>

(***************************************************************************)
(* C31: in the asynchronous variant, once onPush has applied a             *)
(* notification that came after ready, a DoSync that reads the entry it    *)
(* wrote eventually runs, unless the process ends.                         *)
(***************************************************************************)
PushPending == asyncLog.pending # {} /\ Running

PushObserved == asyncLog.pending = {} \/ ~Running

C31_PushRetriggersSync == PushPending ~> PushObserved

(***************************************************************************)
(* C32: in the asynchronous variant, a path whose last applied push        *)
(* carried deleted = true has no entry in RemoteFiles.                     *)
(***************************************************************************)
C32_DeletedPushRemoves ==
    \A path \in asyncLog.deleted : path \notin DOMAIN syncState.RemoteFiles

(***************************************************************************)
(* C33: the backlog of filteredQueue is bounded: nextMessageMatching fails *)
(* before the queue holds every frame of a server that sends MaxFrames     *)
(* frames, none of them matching.                                          *)
(***************************************************************************)
C33_QueueBounded == Len(filteredQueue) < MaxFrames

(***************************************************************************)
(* C34: the counter of unanswered pings of a WaitForPushMessage call is    *)
(* never negative, with a server that sends one pong for each ping.        *)
(***************************************************************************)
C34_CounterNeverNegative == \A i \in Waits : unansweredPingCount[i] >= 0

(***************************************************************************)
(* C35: every binary frame PullFile takes as a piece arrived after the     *)
(* request of that pull was sent: no binary frame that was read from the   *)
(* transport during an earlier pull is concatenated into the pull's data.  *)
(***************************************************************************)
IsHeaderOf(i, j) ==
    /\ i < j
    /\ returned[i].matcher = HeaderMatcher
    /\ \A k \in (i + 1)..j : returned[k].matcher = BinaryMatcher

\* the frame the transport had delivered last when request j was sent: every
\* wait of the pull before it ended with the frame it returned or failed
ReadBeforePull(h, j) ==
    /\ h < j
    /\ returned[h].matcher = HeaderMatcher
    /\ returned[j].matcher = HeaderMatcher

C35_PiecesFollowRequest ==
    \A h, i, j \in DOMAIN returned :
        (ReadBeforePull(h, i) /\ IsHeaderOf(i, j)) =>
            returned[j].frame.id > returned[h].frame.id

(***************************************************************************)
(* C36: in the asynchronous variant the dispatch loop never takes a pull   *)
(* header or a binary piece from the channel of unhandled messages: the    *)
(* binary handler and the catch-all handler are never run on a frame the   *)
(* server sent in answer to a pull of DoSync.                              *)
(***************************************************************************)
C36_PullFramesNotDispatched == asyncLog.taken \cap {"header", "bin"} = {}

(***************************************************************************)
(* C37: when a SyncFiles pass that found no conflict and no local-only     *)
(* path completes, every remote path has a LocalFiles entry of the same    *)
(* kind, a file entry has the modification time of the remote entry, and   *)
(* a pass run on these maps decides to pull, delete, create and report     *)
(* nothing.                                                                *)
(***************************************************************************)
CleanPassCompletes ==
    /\ pass.pc = "stamp"
    /\ pass'.pc = "wait"
    /\ pass.d.conflictPaths = <<>>
    /\ DOMAIN passStart.local \subseteq DOMAIN passStart.remote

SameKind(path) ==
    /\ path \in DOMAIN LocalFiles
    /\ LocalFiles[path].IsFolder = RemoteEntries[path].IsFolder

SameModified(path) ==
    RemoteEntries[path].IsFolder \/ LocalFiles[path].Modified = RemoteEntries[path].Modified

SameCreated(path) ==
    RemoteEntries[path].IsFolder \/ LocalFiles[path].Created = RemoteEntries[path].Created

NothingToDo ==
    \A orderR \in Orders(DOMAIN RemoteEntries) :
    \A orderL \in Orders(DOMAIN LocalFiles) :
        LET d == Decide(LocalFiles, RemoteEntries, LastSync, orderR, orderL)
        IN  /\ d.pullPaths = <<>>
            /\ d.deletePaths = <<>>
            /\ d.newFolderPaths = <<>>
            /\ d.conflictPaths = <<>>

Converged ==
    /\ \A path \in DOMAIN RemoteEntries : SameKind(path) /\ SameModified(path)
    /\ NothingToDo

C37_ConvergesOnModified == [][CleanPassCompletes => Converged']_vars

\* the statement with the creation times of files included
C37_ConvergesOnBothTimes ==
    [][CleanPassCompletes =>
          (Converged /\ \A path \in DOMAIN RemoteEntries : SameCreated(path))']_vars

\* a clean pass has pulled a file and made a folder, and waits for a push
C37_Witness ==
    /\ pass.pc = "wait"
    /\ Converged
    /\ \E path \in DOMAIN LocalFiles : LocalFiles[path].IsFolder
    /\ \E path \in DOMAIN LocalFiles :
          ~LocalFiles[path].IsFolder /\ LocalFiles[path].Modified >= 1

(***************************************************************************)
(* C38: SyncFiles never lists a folder for pulling: every path in          *)
(* pullPaths has a remote entry that is a file, and no path is in both     *)
(* pullPaths and newFolderPaths.                                           *)
(***************************************************************************)
InList(list, path) == \E i \in DOMAIN list : list[i] = path

C38_NoFolderPulled ==
    \A i \in DOMAIN pass.d.pullPaths :
        LET path == pass.d.pullPaths[i]
        IN  /\ ~Lookup(RemoteEntries, path, ZeroRemote).IsFolder
            /\ ~InList(pass.d.newFolderPaths, path)

(***************************************************************************)
(* C39: a PullFile whose expected hash is the Hash field PushFile made for *)
(* a content, and whose pieces decrypt to that content, returns the        *)
(* content.                                                                *)
(***************************************************************************)
PulledWithPushedHash(content, nonce) ==
    /\ pull.pc = "returned"
    /\ pull.tried
    /\ pull.expected = PushFileHash(content, nonce)
    /\ Decrypt(pull.data, VaultKey) = [res |-> "ok", val |-> content]

C39_PushedHashVerifies ==
    PulledWithPushedHash("c1", "n1") =>
        pull.result = "content" /\ pull.content = "c1"

(***************************************************************************)
(* C40: Decrypt returns a plaintext or an error for every input PullFile   *)
(* gives it and never ends the process: the empty input gives the empty    *)
(* plaintext, and a non-empty input shorter than the nonce gives an error. *)
(***************************************************************************)
DecryptReturns(encrypted) ==
    LET out == Decrypt(encrypted, VaultKey)
    IN  /\ out.res \in {"ok", "err"}
        /\ Len(encrypted) = 0 => out = [res |-> "ok", val |-> ""]
        /\ Len(encrypted) \in 1..(NonceSize - 1) => out.res = "err"

C40_DecryptTotal ==
    /\ pull.tried => DecryptReturns(pull.data)
    /\ pull.pc # "crashed"

====
